---- MODULE Spec2Model ----
(***************************************************************************)
(* ACP client of obsidian-claude-code: NativeAcpClient / ZedAcpAdapter     *)
(* (connection lifecycle, sendMessage event sequence, session updates,     *)
(* permission mediation) and the tool-call status chain down to the        *)
(* ToolCallCard of the chat view.                                          *)
(*                                                                         *)
(* Three specifications share the module:                                  *)
(*   Spec / SpecLive  client lifecycle and the sendMessage generator       *)
(*   SpecTool         tool_call / tool_call_update status chain            *)
(*   SpecPerm         inbound permission requests                          *)
(***************************************************************************)
EXTENDS Integers, Sequences, FiniteSets, TLC

\* ---------------------------------------------------------------- bounds
MaxConnects == 2     \* connect() calls on one client instance (one subprocess each)
MaxChunks == 2       \* agent_message_chunk notifications per prompt cycle
MaxUpdates == 3      \* tool_call_update notifications per toolCallId
MaxReqs == 2         \* inbound permission requests
MaxEstablish == 1    \* loadSession / resumeSession calls on one client instance
MaxInbound == 2      \* inbound requests of the agent (permission, file, terminal)
MaxTerminals == 2    \* createTerminal calls of the host on one client instance
MaxHandles == 1      \* terminal handles whose process events are followed
MaxCancels == 1      \* session/cancel notifications sent by one client instance
MaxRpcs == 3         \* requests the client sends on one connection after connect
MaxModals == 2       \* PermissionModal instances

\* ------------------------------------------------------------ value sets
Procs == 1..MaxConnects
Texts == {"Hel", "lo"}
ContentTypes == {"text", "image"}
\* stop reasons an agent may resolve the prompt RPC with; "paused" stands
\* for any reason outside the reasonMap of mapStopReason
KnownStopReasons ==
  {"end_turn", "tool_use", "max_tokens", "max_turn_requests", "refusal", "cancelled"}
AgentStopReasons == {"end_turn", "cancelled", "paused"}
Adapters == {"native", "zed"}
ToolIds == {"t1", "t2"}
Absent == "absent"    \* a field that is null or undefined
\* the ToolCallStatus values of the protocol (the SDK validates inbound
\* notifications, so no other status reaches the client)
ToolStatuses == {"pending", "in_progress", "completed", "failed"}
Reqs == 1..MaxReqs
Opt(id, kind) == [optionId |-> id, kind |-> kind]
OptionLists ==
  { <<>>,
    <<Opt("a", "allow_once"), Opt("b", "reject_once")>>,
    <<Opt("b", "reject_once"), Opt("c", "allow_always")>>,
    <<Opt("b", "reject_once")>> }
\* optionIds a host handler may name ("z" is in no request)
HandlerOptionIds == {Absent, "a", "b", "z"}
Cancelled == [outcome |-> "cancelled", optionId |-> Absent]
Selected(id) == [outcome |-> "selected", optionId |-> id]
NoResult == [kind |-> "none", granted |-> FALSE, optionId |-> Absent]
Threw == [kind |-> "threw", granted |-> FALSE, optionId |-> Absent]
Returned(g, id) == [kind |-> "returned", granted |-> g, optionId |-> id]

\* session state carried by the result of a session-establishing RPC
ModeIds == {"m1", "m2"}
ModelIds == {"x"}
NoModes == [present |-> FALSE, available |-> {}, current |-> Absent]
NoModels == [present |-> FALSE, available |-> {}, current |-> Absent]
NoConfig == [present |-> FALSE, options |-> <<>>]
ModesResults ==
  {NoModes, [present |-> TRUE, available |-> ModeIds, current |-> "m1"]}
ModelsResults ==
  {NoModels, [present |-> TRUE, available |-> ModelIds, current |-> "x"]}
ConfigResults == {NoConfig, [present |-> TRUE, options |-> <<"c1">>]}
AllResults ==
  [modes : ModesResults, models : ModelsResults, configOptions : ConfigResults]
\* the results the agent side answers with: everything, nothing, modes only
SessionResults ==
  {r \in AllResults : r.models.present = r.configOptions.present
                       /\ (r.models.present => r.modes.present)}
\* a result that omits modes, models and configOptions
BareResult == [modes |-> NoModes, models |-> NoModels, configOptions |-> NoConfig]
\* requests the agent sends to the client (methods of createAcpClientImpl)
InKinds == {"requestPermission", "readTextFile", "writeTextFile", "createTerminal"}
InReqs == 1..MaxInbound
\* options of an inbound permission request
InboundOptions == <<Opt("a", "allow_once"), Opt("b", "reject_once")>>
\* what went back to the agent for an inbound request, and whether the host
\* handler behind it threw
NoAnswer == [outcome |-> "none", value |-> Absent, threw |-> FALSE]
Answer(outcome, value) == [outcome |-> outcome, value |-> value, threw |-> FALSE]
ErrorAnswer == [outcome |-> "error", value |-> Absent, threw |-> TRUE]
\* files an edit tool call or a permission request may name
Files == {"f"}
\* options the chat view's permission card offers
CardOptions == <<Opt("a", "allow_once"), Opt("b", "reject_once")>>
\* no response stored in autoApprovedFiles
NoResponse == [outcome |-> "none", optionId |-> Absent]
NoRpc == [pending |-> FALSE, op |-> "none", arg |-> Absent, proc |-> 0]
Rpc(op, arg, p) == [pending |-> TRUE, op |-> op, arg |-> arg, proc |-> p]

VARIABLES
  \* --- client object (NativeAcpClient / ZedAcpAdapter fields)
  adapter,          \* which implementation of IAcpClient this instance is
  hasOnEvent,       \* config.onEvent is set
  process,          \* this.process: 0 = null, else the subprocess
  connection,       \* this.connection: 0 = null, else the subprocess it wraps
  session,          \* this.session: 0 = null, else index into sessObjs
  sessObjs,         \* Session objects created so far:
                    \*   [proc, isActive, disconnected (disconnect() ran on it)]
  initResult,       \* this.initResult # null
  closedSettled,    \* closedPromise is resolved
  closedResolutions,\* times closedPromise went from pending to resolved
  aborted,          \* abortController.signal.aborted
  \* --- agent subprocesses
  procState,        \* Procs -> "unspawned" | "running" | "killed" | "exited"
  \* --- the connect() run in flight
  connectRuns,      \* connect() calls so far
  connPc,           \* "idle" | "awaitInit" | "awaitNewSession"
  initRpc,          \* initialize of the run in flight: "none"|"sent"|"ok"
  newSessRpc,       \* newSession of the run in flight: "none"|"sent"
  rpcOn,            \* subprocess the pending connect RPC was sent to
  connectResult,    \* outcome of the latest run: "none" | "ok" | "failed"
  \* --- the sendMessage() generator in flight
  genPc,            \* position of the generator body
  genEvents,        \* events the generator has yielded
  genStartedConnected, \* isConnected-style guard held at the first pull
  promptOn,         \* subprocess the pending prompt RPC was sent to
  promptStop,       \* stopReason the prompt RPC resolved with ("" = none)
  \* --- the prompt cycle in flight, as the host saw it
  hostLog,          \* stream events of the cycle the host received, through
                    \* the onEvent callback or by draining the generator
  arrived,          \* texts of agent_message_chunk text notifications that
                    \* arrived while the prompt RPC was pending, in order
  nChunks,          \* agent_message_chunk notifications in this cycle
  \* --- chat view: tool calls (ChatView.toolCallCards, ToolCallCard)
  toolCallCards,    \* toolCallIds that have a card in ChatView.toolCallCards
  cardStatus,       \* ToolIds -> status the card shows ("none": no card)
  updates,          \* ToolIds -> statuses carried by the tool_call_update
                    \* notifications since the tool_call, in arrival order
  \* --- permission mediation (handleRequestPermission)
  permissionHandler,\* this.permissionHandler # null
  reqState,         \* Reqs -> "none" | "pending" | "answered" | "failed"
  reqOptions,       \* Reqs -> params.options of the request
  responses,        \* Reqs -> outcomes returned to the agent
  handlerCalls,     \* Reqs -> invocations of the host handler
  handlerGave,      \* Reqs -> what the host handler came back with
  activePermissionCards, \* requests whose PermissionCard the chat view holds
  \* --- session state (NativeAcpClient fields behind the getters)
  agentCaps,        \* initResult.agentCapabilities.loadSession is advertised
  availableModes,   \* this.availableModes, as the set of mode ids
  currentMode,      \* this.currentMode: Absent = null, else its modeId
  availableModels,  \* this.availableModels, as the set of model ids
  currentModel,     \* this.currentModel: Absent = null, else its id
  configOptions,    \* this.configOptions (<<>> = [])
  setModeRpc,       \* the setSessionMode RPC in flight
  establishRpc,     \* the loadSession / resumeSession RPC in flight
  nEstablish,       \* loadSession / resumeSession calls so far
  nDelivered,       \* stream events the latest session update handed to onEvent
  \* --- inbound requests of the agent (createAcpClientImpl)
  inKind,           \* InReqs -> method of the request ("none": not sent yet)
  inState,          \* InReqs -> "none" | "pending" | "answered" | "failed"
  inAnswer,         \* InReqs -> what the client returned to the agent
  settledOrder,     \* requests whose host handler has settled, in that order
  answeredOrder,    \* requests answered to the agent, in that order
  terminals,        \* this.terminalIdCounter (= terminals created)
  \* --- chat view: permission cards and edit batching (ChatView)
  pendingEditsByFile, \* Files -> toolCallIds of the tracked edits
  autoApprovedFiles,  \* Files -> stored response (NoResponse: no entry)
  cardFile,         \* Reqs -> filePath onPermissionRequest worked out
  cardMulti,        \* Reqs -> the card came from handleMultiEditPermission
  userChose,        \* Reqs -> the user picked an option on this request's card
  warned,           \* toolCallIds onToolCallUpdate logged "Tool call not found" for
  \* --- terminals
  registry,         \* keys of this.terminals
  allocated,        \* ids handed out so far, in allocation order
  handles,          \* id -> the NativeTerminalHandle created with that id:
                    \*   process: this.process is not null
                    \*   exitCode: this.exitCode (NoCode: null)
                    \*   exitPromise: value of this.exitPromise (NoCode: pending)
                    \*   os: the child process as the OS has it
                    \*   host: createTerminal returned the handle to the host
                    \*   signalled: a SIGTERM was delivered to the child
                    \*   killRaised: a kill() call on the handle threw
                    \*   killCalls: kill() calls on the ended handle (0, 1, 2 or more)
                    \*   waitGot: Callers -> what waitForExit() gave the caller
  \* --- requests and notifications of the client (ClientSideConnection)
  rpc,              \* nextId: id the next request of the client gets
                    \*   table: id -> method of the outstanding request
                    \*   call: method -> id of the caller's request and the
                    \*         id its response carried
                    \*   answered: ids of the responses, in arrival order
                    \*   cancelSent: session/cancel notifications sent
  \* --- PermissionModal instances
  modals,           \* the modals opened so far, each with
                    \*   state: "open" | "closed"
                    \*   options: request.options
                    \*   resolvePromise: this.resolvePromise is not null
                    \*   selectedOptionId: this.selectedOptionId (Absent: null)
                    \*   resolved: results passed to the promise's resolve
                    \*   closedBy: how the user closed the modal
  \* --- setModel / setConfigOption / forkSession, setMode when not connected
  hostCall          \* the latest call of one of these methods:
                    \*   op: the method ("none": no call yet)
                    \*   arg: modelId, configId or sessionId
                    \*   value: valueId of setConfigOption
                    \*   state: "pending" | "returned" | "threw"
                    \*   proc: the subprocess the RPC went to
                    \*   result: the id forkSession returned

lifeVars == <<adapter, hasOnEvent, process, connection, session, sessObjs,
              initResult, closedSettled, closedResolutions, aborted,
              procState, connectRuns, connPc, initRpc, newSessRpc,
              rpcOn, connectResult,
              genPc, genEvents, genStartedConnected, promptOn, promptStop,
              hostLog, arrived, nChunks>>

toolVars == <<toolCallCards, cardStatus, updates>>

permVars == <<permissionHandler, reqState, reqOptions, responses,
              handlerCalls, handlerGave, activePermissionCards>>

sessVars == <<agentCaps, availableModes, currentMode, availableModels,
              currentModel, configOptions, setModeRpc, establishRpc,
              nEstablish, nDelivered>>

modeVars == <<availableModes, currentMode, availableModels, currentModel,
              configOptions>>
sessRpcVars == <<setModeRpc, establishRpc, nEstablish, nDelivered>>

inVars == <<inKind, inState, inAnswer, settledOrder, answeredOrder, terminals>>

viewVars == <<pendingEditsByFile, autoApprovedFiles, cardFile, cardMulti,
              userChose, warned>>

termVars == <<registry, allocated, handles>>

extraVars == <<rpc, modals, hostCall>>

otherVars == <<inVars, viewVars, termVars, extraVars>>

restVars == <<sessVars, otherVars>>

vars == <<lifeVars, toolVars, permVars, restVars>>

\* ------------------------------------------------------ requests, modals
\* the requests the host can have in flight at once on a connected client:
\* sendMessage's prompt, setMode's session/set_mode, loadSession's session/load
RpcMethods == {"prompt", "setSessionMode", "loadSession"}
\* Confirm and Cancel buttons, Enter and Escape keys, closing the modal
CloseWays == {"confirm", "enter", "cancel", "escape", "close"}

\* --------------------------------------------------------- terminal values
Callers == {1, 2}     \* two callers of waitForExit() on one handle
ExitCodes == {0, 2}   \* codes of an 'exit' event (a null code is stored as 0)
ErrorCode == 1        \* the code the 'error' handler resolves with
NoCode == -1          \* exitCode null / exitPromise still pending
NotCalled == -2       \* this caller has not called waitForExit()
Waiting == -3         \* this caller awaits the pending exitPromise

\* ---------------------------------------------------------------- events
Ev(t, a) == [type |-> t, arg |-> a]
IsTerminal(e) == e.type \in {"message_complete", "error"}

RECURSIVE TerminalCount(_)
TerminalCount(s) ==
  IF s = <<>> THEN 0
  ELSE (IF IsTerminal(Head(s)) THEN 1 ELSE 0) + TerminalCount(Tail(s))

RECURSIVE SelectType(_, _)
SelectType(s, types) ==
  IF s = <<>> THEN <<>>
  ELSE IF Head(s).type \in types
       THEN <<Head(s)>> \o SelectType(Tail(s), types)
       ELSE SelectType(Tail(s), types)

RECURSIVE TextDeltas(_)
TextDeltas(ts) ==
  IF ts = <<>> THEN <<>>
  ELSE <<Ev("text_delta", Head(ts))>> \o TextDeltas(Tail(ts))

\* --------------------------------------------------------- pure helpers
mapStopReason(reason) ==
  IF reason \in KnownStopReasons THEN reason ELSE "end_turn"

isConnected == connection # 0 /\ session # 0

\* the host's onEvent callback, when configured (this.config.onEvent?.(e))
onEvent(e) ==
  hostLog' = IF hasOnEvent THEN Append(hostLog, e) ELSE hostLog

\* one event yielded by the generator and drained by the host loop
yield(e) ==
  /\ genEvents' = Append(genEvents, e)
  /\ hostLog' = Append(hostLog, e)

Alive(p) == p # 0 /\ procState[p] \in {"running", "killed"}

\* ------------------------------------------------------- terminal handles
\* no terminal was created yet
NoTerminalYet ==
  /\ registry = {}
  /\ allocated = <<>>
  /\ handles = <<>>

\* no call of setModel, setConfigOption or forkSession yet
NoCall == [op |-> "none", arg |-> Absent, value |-> Absent, state |-> "none",
           proc |-> 0, result |-> Absent]

\* nothing was sent by the client, no modal was opened
NothingExtraYet ==
  /\ rpc = [nextId |-> 1, table |-> <<>>, call |-> <<>>, answered |-> <<>>,
            cancelSent |-> 0]
  /\ modals = <<>>
  /\ hostCall = NoCall

\* the ids for which a handle was created
TermIds == DOMAIN handles

\* the child process can receive a signal: it was spawned and has not ended
ProcessAlive(t) == handles[t].os \in {"running", "errored"}

\* the handle's process has exited, failed to spawn, or was released
Ended(t) == ~handles[t].process \/ ~ProcessAlive(t)

\* variant: the id is taken from the size of the registry
nextTerminalId_fromRegistry == Cardinality(registry) + 1

\* ++this.terminalIdCounter
nextTerminalId == terminals + 1

\* new NativeTerminalHandle(id, ...): spawn() returns a ChildProcess whether
\* or not the command can be started (os); a failed spawn shows as an
\* 'error' event later
NativeTerminalHandle(os, toHost) ==
  [process |-> TRUE, exitCode |-> NoCode, exitPromise |-> NoCode, os |-> os,
   host |-> toHost, signalled |-> FALSE, killRaised |-> FALSE,
   killCalls |-> 0, waitGot |-> [c \in Callers |-> NotCalled]]

\* the allocation both createTerminal and handleCreateTerminal do: a new
\* handle, then this.terminals.set(id, terminal)
registerTerminal(t, toHost) ==
  /\ terminals' = t
  /\ registry' = registry \cup {t}
  /\ allocated' = Append(allocated, t)
  /\ \E os \in {"running", "failing"} :
       handles' = (t :> NativeTerminalHandle(os, toHost)) @@ handles

\* variant: kill() signals whatever this.process is
kill_unguarded(t) ==
  IF handles[t].process
  THEN [signal |-> ProcessAlive(t), error |-> FALSE]
  ELSE [signal |-> FALSE, error |-> TRUE]

\* kill(): process.kill("SIGTERM") only while this.process is set and no
\* exit code was recorded; ChildProcess.kill delivers the signal only to a
\* child that is alive and returns false otherwise
kill(t) ==
  IF handles[t].process /\ handles[t].exitCode = NoCode
  THEN [signal |-> ProcessAlive(t), error |-> FALSE]
  ELSE [signal |-> FALSE, error |-> FALSE]

\* the handle after a kill() call
afterKill(t) ==
  [handles[t] EXCEPT !.signalled = @ \/ kill(t).signal,
                     !.killRaised = @ \/ kill(t).error,
                     !.killCalls = IF Ended(t) /\ @ < 2 THEN @ + 1 ELSE @]

\* the handle after release(): await this.kill(); this.process = null
release(t) == [afterKill(t) EXCEPT !.process = FALSE]

\* ------------------------------------------------------------------ Init
\* the client object right after its constructor, nothing connected
ClientConstructed ==
  /\ process = 0
  /\ connection = 0
  /\ session = 0
  /\ sessObjs = <<>>
  /\ initResult = FALSE
  /\ closedSettled = FALSE
  /\ closedResolutions = 0
  /\ aborted = FALSE
  /\ procState = [p \in Procs |-> "unspawned"]
  /\ connectRuns = 0
  /\ connPc = "idle"
  /\ initRpc = "none"
  /\ newSessRpc = "none"
  /\ rpcOn = 0
  /\ connectResult = "none"
  /\ genPc = "none"
  /\ genEvents = <<>>
  /\ genStartedConnected = FALSE
  /\ promptOn = 0
  /\ promptStop = ""
  /\ hostLog = <<>>
  /\ arrived = <<>>
  /\ nChunks = 0

\* a chat view that has shown no tool call yet
ChatViewFresh ==
  /\ toolCallCards = {}
  /\ cardStatus = [t \in ToolIds |-> "none"]
  /\ updates = [t \in ToolIds |-> <<>>]

\* no permission request has arrived yet
NoRequestYet ==
  /\ reqState = [r \in Reqs |-> "none"]
  /\ reqOptions = [r \in Reqs |-> <<>>]
  /\ responses = [r \in Reqs |-> <<>>]
  /\ handlerCalls = [r \in Reqs |-> 0]
  /\ handlerGave = [r \in Reqs |-> NoResult]
  /\ activePermissionCards = {}

\* no inbound request has arrived, no terminal was created
NoInboundYet ==
  /\ inKind = [r \in InReqs |-> "none"]
  /\ inState = [r \in InReqs |-> "none"]
  /\ inAnswer = [r \in InReqs |-> NoAnswer]
  /\ settledOrder = <<>>
  /\ answeredOrder = <<>>
  /\ terminals = 0

\* the chat view tracks no edit, has approved no file, has shown no card
NoEditTracked ==
  /\ pendingEditsByFile = [f \in Files |-> {}]
  /\ autoApprovedFiles = [f \in Files |-> NoResponse]
  /\ cardFile = [r \in Reqs |-> Absent]
  /\ cardMulti = [r \in Reqs |-> FALSE]
  /\ userChose = [r \in Reqs |-> FALSE]
  /\ warned = {}

\* the session state right after the constructor
SessionStateFresh ==
  /\ agentCaps = FALSE
  /\ availableModes = {}
  /\ currentMode = Absent
  /\ availableModels = {}
  /\ currentModel = Absent
  /\ configOptions = <<>>
  /\ setModeRpc = NoRpc
  /\ establishRpc = NoRpc
  /\ nEstablish = 0
  /\ nDelivered = 0

\* lifecycle specification: either adapter, with or without config.onEvent
Init ==
  /\ adapter \in Adapters
  /\ hasOnEvent \in BOOLEAN
  /\ ClientConstructed
  /\ ChatViewFresh
  /\ permissionHandler = FALSE
  /\ NoRequestYet
  /\ SessionStateFresh
  /\ NoInboundYet
  /\ NoEditTracked
  /\ NoTerminalYet
  /\ NothingExtraYet

\* tool-call specification: the plugin's native client, wired to the view
InitTool ==
  /\ adapter = "native"
  /\ hasOnEvent = TRUE
  /\ ClientConstructed
  /\ ChatViewFresh
  /\ permissionHandler = TRUE
  /\ NoRequestYet
  /\ SessionStateFresh
  /\ NoInboundYet
  /\ NoEditTracked
  /\ NoTerminalYet
  /\ NothingExtraYet

\* permission specification: config.permissionHandler given or not
InitPerm ==
  /\ adapter \in Adapters
  /\ hasOnEvent = TRUE
  /\ ClientConstructed
  /\ ChatViewFresh
  /\ permissionHandler \in BOOLEAN
  /\ NoRequestYet
  /\ SessionStateFresh
  /\ NoInboundYet
  /\ NoEditTracked
  /\ NoTerminalYet
  /\ NothingExtraYet

\* ------------------------------------------------------------- lifecycle
genVars == <<genPc, genEvents, genStartedConnected, promptOn, promptStop,
             arrived, nChunks>>
connVars == <<connectRuns, connPc, initRpc, newSessRpc, rpcOn, connectResult>>
closeVars == <<closedSettled, closedResolutions, aborted>>

\* catch block of connect(): onError, rethrow; the run is over
connect_catch ==
  /\ connPc' = "idle"
  /\ connectResult' = "failed"
  /\ initRpc' = "none"
  /\ newSessRpc' = "none"

\* connect(), from the call to the await of initialize.
\*   binaryFound: sessionConfig.binaryPath ?? findBinary() is not null
\*   streamsOk  : the spawned process has stdin and stdout
connect(binaryFound, streamsOk) ==
  /\ connPc = "idle"
  /\ connectRuns < MaxConnects
  /\ connectRuns' = connectRuns + 1
  /\ LET p == connectRuns + 1 IN
       IF ~binaryFound
       THEN /\ connect_catch
            /\ UNCHANGED <<process, connection, procState, rpcOn>>
       ELSE /\ process' = p
            /\ procState' = [procState EXCEPT ![p] = "running"]
            /\ IF ~streamsOk
               THEN /\ connect_catch
                    /\ UNCHANGED <<connection, rpcOn>>
               ELSE /\ connection' = p
                    /\ rpcOn' = p
                    /\ initRpc' = "sent"
                    /\ connPc' = "awaitInit"
                    /\ UNCHANGED <<connectResult, newSessRpc>>
  /\ UNCHANGED <<toolVars, permVars, restVars, adapter, hasOnEvent, session, sessObjs, initResult,
                 closeVars, genVars, hostLog>>

\* variant: newSession is issued without looking at the connection again
\* and without initialize having been acknowledged
connect_afterInitialize_unacked(caps) ==
  /\ initResult' = TRUE
  /\ agentCaps' = caps
  /\ newSessRpc' = "sent"
  /\ rpcOn' = connection
  /\ connPc' = "awaitNewSession"
  /\ UNCHANGED <<connectResult, initRpc, session, sessObjs>>

\* variant: the Session object is built as soon as initialize has resolved,
\* before newSession has answered
connect_afterInitialize_earlySession(caps) ==
  /\ initResult' = TRUE
  /\ agentCaps' = caps
  /\ sessObjs' = Append(sessObjs,
                   [proc |-> rpcOn, isActive |-> TRUE, disconnected |-> FALSE])
  /\ session' = Len(sessObjs) + 1
  /\ IF connection = 0
     THEN /\ connect_catch
          /\ UNCHANGED rpcOn
     ELSE /\ initRpc' = "ok"
          /\ newSessRpc' = "sent"
          /\ rpcOn' = connection
          /\ connPc' = "awaitNewSession"
          /\ UNCHANGED connectResult

\* continuation of connect() after initialize resolved: store initResult
\* (caps: its agentCapabilities advertise loadSession), then call
\* this.connection.newSession (a TypeError when disconnect() nulled the
\* connection meanwhile)
connect_afterInitialize(caps) ==
  /\ initResult' = TRUE
  /\ agentCaps' = caps
  /\ UNCHANGED <<session, sessObjs>>
  /\ IF connection = 0
     THEN /\ connect_catch
          /\ UNCHANGED rpcOn
     ELSE /\ initRpc' = "ok"
          /\ newSessRpc' = "sent"
          /\ rpcOn' = connection
          /\ connPc' = "awaitNewSession"
          /\ UNCHANGED connectResult

InitializeResolves(caps) ==
  /\ connPc = "awaitInit"
  /\ Alive(rpcOn)
  /\ connect_afterInitialize(caps)
  /\ UNCHANGED <<toolVars, permVars, otherVars, modeVars, sessRpcVars, adapter,
                 hasOnEvent, process, connection,
                 closeVars, procState, connectRuns, genVars, hostLog>>

\* initialize rejects: an error response of the agent, or the connection
\* failing the request because the subprocess is gone
InitializeRejects ==
  /\ connPc = "awaitInit"
  /\ connect_catch
  /\ UNCHANGED <<toolVars, permVars, restVars, adapter, hasOnEvent, process, connection, session, sessObjs,
                 initResult, closeVars, procState, connectRuns,
                 rpcOn, genVars, hostLog>>

\* if (result.modes) { availableModes = ...; currentMode = ... }
storeModes(result) ==
  IF result.modes.present
  THEN /\ availableModes' = result.modes.available
       /\ currentMode' = result.modes.current
  ELSE UNCHANGED <<availableModes, currentMode>>

\* continuation of connect() after newSession resolved: store modes, models
\* and config options when the result has them, then the Session object
connect_afterNewSession(sessionResult) ==
  /\ storeModes(sessionResult)
  /\ IF sessionResult.models.present
     THEN /\ availableModels' = sessionResult.models.available
          /\ currentModel' = sessionResult.models.current
     ELSE UNCHANGED <<availableModels, currentModel>>
  /\ configOptions' = IF sessionResult.configOptions.present
                      THEN sessionResult.configOptions.options
                      ELSE configOptions
  /\ sessObjs' = Append(sessObjs,
                   [proc |-> rpcOn, isActive |-> TRUE, disconnected |-> FALSE])
  /\ session' = Len(sessObjs) + 1
  /\ connPc' = "idle"
  /\ connectResult' = "ok"
  /\ initRpc' = "none"
  /\ newSessRpc' = "none"

NewSessionResolves(sessionResult) ==
  /\ connPc = "awaitNewSession"
  /\ Alive(rpcOn)
  /\ connect_afterNewSession(sessionResult)
  /\ UNCHANGED <<toolVars, permVars, otherVars, agentCaps, sessRpcVars, adapter, hasOnEvent, process, connection, initResult,
                 closeVars, procState, connectRuns, rpcOn,
                 genVars, hostLog>>

NewSessionRejects ==
  /\ connPc = "awaitNewSession"
  /\ connect_catch
  /\ UNCHANGED <<toolVars, permVars, restVars, adapter, hasOnEvent, process, connection, session, sessObjs,
                 initResult, closeVars, procState, connectRuns,
                 rpcOn, genVars, hostLog>>

\* variant: this.session is marked inactive but not set to null
disconnect_keepsSession ==
  /\ procState' = IF process # 0 /\ procState[process] = "running"
                  THEN [procState EXCEPT ![process] = "killed"]
                  ELSE procState
  /\ process' = 0
  /\ connection' = 0
  /\ sessObjs' = IF session # 0
                 THEN [sessObjs EXCEPT ![session].isActive = FALSE,
                                       ![session].disconnected = TRUE]
                 ELSE sessObjs
  /\ session' = session
  /\ initResult' = FALSE
  /\ agentCaps' = FALSE
  /\ handles' = [t \in TermIds |-> IF t \in registry THEN release(t)
                                  ELSE handles[t]]
  /\ registry' = {}
  /\ UNCHANGED <<toolVars, permVars, inVars, viewVars, extraVars, modeVars, sessRpcVars,
                 adapter, hasOnEvent, closeVars, connVars, genVars, hostLog,
                 allocated>>

\* disconnect(): kill and forget the subprocess, drop connection, session
\* and initResult with the capabilities it holds, release every registered
\* terminal and clear the registry (the awaits of release() resume in one
\* run of microtasks; the id counter is kept); modes, models and config
\* options are left as they are
disconnect ==
  /\ procState' = IF process # 0 /\ procState[process] = "running"
                  THEN [procState EXCEPT ![process] = "killed"]
                  ELSE procState
  /\ process' = 0
  /\ connection' = 0
  /\ sessObjs' = IF session # 0
                 THEN [sessObjs EXCEPT ![session].isActive = FALSE,
                                       ![session].disconnected = TRUE]
                 ELSE sessObjs
  /\ session' = 0
  /\ initResult' = FALSE
  /\ agentCaps' = FALSE
  /\ handles' = [t \in TermIds |-> IF t \in registry THEN release(t)
                                  ELSE handles[t]]
  /\ registry' = {}
  /\ UNCHANGED <<toolVars, permVars, inVars, viewVars, extraVars, modeVars, sessRpcVars,
                 adapter, hasOnEvent, closeVars, connVars, genVars, hostLog,
                 allocated>>

\* variant: the listener aborts the signal but never resolves closed
processOnExit_abortOnly ==
  /\ aborted' = TRUE
  /\ UNCHANGED <<closedSettled, closedResolutions>>

\* the "exit" listener connect() puts on every subprocess it spawns
processOnExit ==
  /\ closedSettled' = TRUE
  /\ closedResolutions' = IF closedSettled THEN closedResolutions
                          ELSE closedResolutions + 1
  /\ aborted' = TRUE

ProcessExit(p) ==
  /\ procState[p] \in {"running", "killed"}
  /\ procState' = [procState EXCEPT ![p] = "exited"]
  /\ processOnExit
  /\ UNCHANGED <<toolVars, permVars, restVars, adapter, hasOnEvent, process, connection, session, sessObjs,
                 initResult, connVars, genVars, hostLog>>

\* ------------------------------------------------ sendMessage generator
\* genPc: "none"        no generator yet
\*        "created"     sendMessage() returned the generator, body not started
\*        "atStart"     suspended at the yield of message_start (native)
\*        "awaitPrompt" suspended at the await of connection.prompt
\*        "atComplete"  suspended at the yield of message_complete
\*        "atError"     suspended at the yield of error
\*        "done"        the body returned
\*        "thrown"      the body threw "Not connected" to the consumer
sendMessage ==
  /\ genPc \in {"none", "done", "thrown"}
  /\ genPc' = "created"
  /\ genEvents' = <<>>
  /\ genStartedConnected' = FALSE
  /\ promptOn' = 0
  /\ promptStop' = ""
  /\ hostLog' = <<>>
  /\ arrived' = <<>>
  /\ nChunks' = 0
  /\ UNCHANGED <<toolVars, permVars, restVars, adapter, hasOnEvent, process, connection, session, sessObjs,
                 initResult, closeVars, procState, connVars>>

\* variant: the catch block ends the sequence without an error event
sendMessage_catch_silent ==
  /\ genPc' = "atError"
  /\ UNCHANGED <<genEvents, hostLog>>

\* catch block of sendMessage: yield the error event
sendMessage_catch ==
  /\ yield(Ev("error", ""))
  /\ genPc' = "atError"

\* this.connection.prompt({sessionId: this.session.id, ...}) inside the try:
\* a TypeError when connection or session is null, else the RPC is sent
sendMessage_prompt ==
  IF connection = 0 \/ session = 0
  THEN /\ sendMessage_catch
       /\ UNCHANGED promptOn
  ELSE /\ promptOn' = connection
       /\ genPc' = "awaitPrompt"
       /\ UNCHANGED <<genEvents, hostLog>>

\* body of sendMessage from its start to the first suspension
sendMessage_start ==
  /\ genStartedConnected' = isConnected
  /\ IF ~isConnected
     THEN /\ genPc' = "thrown"
          /\ UNCHANGED <<genEvents, hostLog, promptOn>>
     ELSE IF adapter = "native"
          THEN /\ yield(Ev("message_start", "msg"))
               /\ genPc' = "atStart"
               /\ UNCHANGED promptOn
          ELSE sendMessage_prompt

\* the consumer's first next()
GenFirstNext ==
  /\ genPc = "created"
  /\ sendMessage_start
  /\ UNCHANGED <<toolVars, permVars, restVars, adapter, hasOnEvent, process, connection, session, sessObjs,
                 initResult, closeVars, procState, connVars,
                 promptStop, arrived, nChunks>>

\* the consumer's next() after message_start (native client)
GenResume ==
  /\ genPc = "atStart"
  /\ sendMessage_prompt
  /\ UNCHANGED <<toolVars, permVars, restVars, adapter, hasOnEvent, process, connection, session, sessObjs,
                 initResult, closeVars, procState, connVars,
                 genStartedConnected, promptStop, arrived, nChunks>>

\* continuation after the prompt RPC resolved with stopReason r
sendMessage_afterPrompt(r) ==
  /\ yield(Ev("message_complete", mapStopReason(r)))
  /\ genPc' = "atComplete"

PromptResolves(r) ==
  /\ genPc = "awaitPrompt"
  /\ Alive(promptOn)
  /\ promptStop' = r
  /\ sendMessage_afterPrompt(r)
  /\ UNCHANGED <<toolVars, permVars, restVars, adapter, hasOnEvent, process, connection, session, sessObjs,
                 initResult, closeVars, procState, connVars,
                 genStartedConnected, promptOn, arrived, nChunks>>

\* the agent answers the prompt RPC with an error
PromptRejects ==
  /\ genPc = "awaitPrompt"
  /\ Alive(promptOn)
  /\ sendMessage_catch
  /\ UNCHANGED <<toolVars, permVars, restVars, adapter, hasOnEvent, process, connection, session, sessObjs,
                 initResult, closeVars, procState, connVars,
                 genStartedConnected, promptOn, promptStop, arrived, nChunks>>

\* Connection: the subprocess is gone, the outstanding prompt request fails
\* with Disconnected
ConnectionFailsOutstanding ==
  /\ genPc = "awaitPrompt"
  /\ procState[promptOn] = "exited"

PromptDisconnected ==
  /\ ConnectionFailsOutstanding
  /\ sendMessage_catch
  /\ UNCHANGED <<toolVars, permVars, restVars, adapter, hasOnEvent, process, connection, session, sessObjs,
                 initResult, closeVars, procState, connVars,
                 genStartedConnected, promptOn, promptStop, arrived, nChunks>>

\* the consumer's next() after the terminal event: the body returns
GenFinish ==
  /\ genPc \in {"atComplete", "atError"}
  /\ genPc' = "done"
  /\ promptOn' = 0
  /\ promptStop' = ""
  /\ hostLog' = <<>>
  /\ arrived' = <<>>
  /\ nChunks' = 0
  /\ UNCHANGED <<toolVars, permVars, restVars, adapter, hasOnEvent, process, connection, session, sessObjs,
                 initResult, closeVars, procState, connVars,
                 genEvents, genStartedConnected>>

\* ------------------------------------------------------ session updates
\* variant: the text of the chunk is not carried over
handleSessionUpdate_chunk_blank(ctype, text) ==
  IF ctype = "text"
  THEN onEvent(Ev("text_delta", ""))
  ELSE UNCHANGED hostLog

\* handleSessionUpdate, case agent_message_chunk
handleSessionUpdate_chunk(ctype, text) ==
  IF ctype = "text"
  THEN onEvent(Ev("text_delta", text))
  ELSE UNCHANGED hostLog

\* the agent emits session updates while it works on a prompt
AgentMessageChunk(ctype, text) ==
  /\ genPc = "awaitPrompt"
  /\ Alive(promptOn)
  /\ nChunks < MaxChunks
  /\ nChunks' = nChunks + 1
  /\ handleSessionUpdate_chunk(ctype, text)
  /\ arrived' = IF ctype = "text" THEN Append(arrived, text) ELSE arrived
  /\ UNCHANGED <<toolVars, permVars, restVars, adapter, hasOnEvent, process, connection, session, sessObjs,
                 initResult, closeVars, procState, connVars,
                 genPc, genEvents, genStartedConnected, promptOn, promptStop>>

Next ==
  \/ \E b \in BOOLEAN, st \in BOOLEAN : connect(b, st)
  \/ InitializeResolves(FALSE)
  \/ InitializeRejects
  \/ NewSessionResolves(BareResult)
  \/ NewSessionRejects
  \/ disconnect
  \/ \E p \in Procs : ProcessExit(p)
  \/ sendMessage
  \/ GenFirstNext
  \/ GenResume
  \/ \E r \in AgentStopReasons : PromptResolves(r)
  \/ PromptRejects
  \/ PromptDisconnected
  \/ GenFinish
  \/ \E c \in ContentTypes, t \in Texts : AgentMessageChunk(c, t)

Spec == Init /\ [][Next]_vars

\* liveness specification: either adapter, configured as ObsidianAcpClient
\* configures it (config.onEvent set)
InitLive ==
  /\ adapter \in Adapters
  /\ hasOnEvent = TRUE
  /\ ClientConstructed
  /\ ChatViewFresh
  /\ permissionHandler = FALSE
  /\ NoRequestYet
  /\ SessionStateFresh
  /\ NoInboundYet
  /\ NoEditTracked
  /\ NoTerminalYet
  /\ NothingExtraYet

\* the event loop runs the rejection of a request the Connection has failed
SpecLive == InitLive /\ [][Next]_vars /\ WF_vars(PromptDisconnected)

\* ---------------------------------------------------------- session state
\* the state disconnect() leaves behind
Disconnected == process = 0 /\ connection = 0 /\ session = 0 /\ ~initResult

\* setMode(modeId), up to the await of connection.setSessionMode.  The host
\* awaits one setMode at a time.
setMode(modeId) ==
  /\ isConnected
  /\ ~setModeRpc.pending
  /\ setModeRpc' = Rpc("setSessionMode", modeId, connection)
  /\ UNCHANGED <<lifeVars, toolVars, permVars, otherVars, agentCaps, modeVars,
                 establishRpc, nEstablish, nDelivered>>

\* setModeRpc keeps the latest setSessionMode request once it has resolved
\* variant: the mode is not stored when the RPC has resolved
setMode_afterRpc_noStore(modeId) ==
  UNCHANGED currentMode

\* continuation of setMode: this.currentMode = { modeId }
setMode_afterRpc(modeId) ==
  currentMode' = modeId

SetModeResolves ==
  /\ setModeRpc.pending
  /\ Alive(setModeRpc.proc)
  /\ setMode_afterRpc(setModeRpc.arg)
  /\ setModeRpc' = [setModeRpc EXCEPT !.pending = FALSE]
  /\ UNCHANGED <<lifeVars, toolVars, permVars, otherVars, agentCaps, availableModes,
                 availableModels, currentModel, configOptions,
                 establishRpc, nEstablish, nDelivered>>

\* setSessionMode rejects: setMode throws, nothing is stored
SetModeRejects ==
  /\ setModeRpc.pending
  /\ setModeRpc' = NoRpc
  /\ UNCHANGED <<lifeVars, toolVars, permVars, otherVars, agentCaps, modeVars,
                 establishRpc, nEstablish, nDelivered>>

\* loadSession / resumeSession up to the await of the RPC: the only test
\* is that this.connection is set
establishSession(op) ==
  /\ connection # 0
  /\ ~establishRpc.pending
  /\ nEstablish < MaxEstablish
  /\ nEstablish' = nEstablish + 1
  /\ establishRpc' = Rpc(op, "s9", connection)
  /\ UNCHANGED <<lifeVars, toolVars, permVars, otherVars, agentCaps, modeVars,
                 setModeRpc, nDelivered>>

loadSession == establishSession("loadSession")

resumeSession == establishSession("resumeSession")

\* continuation of loadSession / resumeSession: modes when the result has
\* them, then a new Session object becomes this.session
EstablishResolves(result) ==
  /\ establishRpc.pending
  /\ Alive(establishRpc.proc)
  /\ storeModes(result)
  /\ sessObjs' = Append(sessObjs, [proc |-> establishRpc.proc,
                                   isActive |-> TRUE, disconnected |-> FALSE])
  /\ session' = Len(sessObjs) + 1
  /\ establishRpc' = NoRpc
  /\ UNCHANGED <<toolVars, permVars, otherVars, agentCaps, availableModels, currentModel,
                 configOptions, setModeRpc, nEstablish, nDelivered,
                 adapter, hasOnEvent, process, connection, initResult,
                 closeVars, procState, connVars, genVars, hostLog>>

EstablishRejects ==
  /\ establishRpc.pending
  /\ establishRpc' = NoRpc
  /\ UNCHANGED <<lifeVars, toolVars, permVars, otherVars, agentCaps, modeVars,
                 setModeRpc, nEstablish, nDelivered>>

\* sessionUpdate kinds and what each carries that the client looks at
UpdateKinds ==
  {"user_message_chunk", "agent_message_chunk", "agent_thought_chunk",
   "tool_call", "tool_call_update", "plan", "current_mode_update",
   "available_commands_update", "session_info_update", "config_option_update"}

PayloadsOf(kind) ==
  CASE kind \in {"agent_message_chunk", "agent_thought_chunk"} -> ContentTypes
    [] kind = "current_mode_update" -> ModeIds
    [] kind = "config_option_update" -> {"c2"}
    [] OTHER -> {Absent}

\* a branch of the switch that emits nothing
noEvent ==
  nDelivered' = 0

\* this.config.onEvent?.(event) on the way of a session update
deliverEvent ==
  nDelivered' = IF hasOnEvent THEN 1 ELSE 0

\* variant: a mode update also empties the config options
handleSessionUpdate_resetsConfig(kind, payload) ==
  CASE kind \in {"agent_message_chunk", "agent_thought_chunk"} ->
         /\ IF payload = "text" THEN deliverEvent ELSE noEvent
         /\ UNCHANGED modeVars
    [] kind = "current_mode_update" ->
         /\ currentMode' = payload
         /\ configOptions' = <<>>
         /\ deliverEvent
         /\ UNCHANGED <<availableModes, availableModels, currentModel>>
    [] kind = "config_option_update" ->
         /\ configOptions' = <<payload>>
         /\ UNCHANGED <<availableModes, currentMode, availableModels,
                        currentModel>>
         /\ noEvent
    [] kind = "user_message_chunk" ->
         noEvent /\ UNCHANGED modeVars
    [] OTHER ->
         /\ deliverEvent
         /\ UNCHANGED modeVars

\* handleSessionUpdate: the switch on update.sessionUpdate, with no test of
\* this.session
handleSessionUpdate(kind, payload) ==
  CASE kind \in {"agent_message_chunk", "agent_thought_chunk"} ->
         /\ IF payload = "text" THEN deliverEvent ELSE noEvent
         /\ UNCHANGED modeVars
    [] kind = "current_mode_update" ->
         /\ currentMode' = payload
         /\ deliverEvent
         /\ UNCHANGED <<availableModes, availableModels, currentModel,
                        configOptions>>
    [] kind = "config_option_update" ->
         /\ configOptions' = <<payload>>
         /\ UNCHANGED <<availableModes, currentMode, availableModels,
                        currentModel>>
         /\ noEvent
    [] kind = "user_message_chunk" ->
         noEvent /\ UNCHANGED modeVars
    [] OTHER ->
         /\ deliverEvent
         /\ UNCHANGED modeVars

\* the agent behind the latest connection object sends a session update; it
\* is handled as long as that subprocess has not exited, also while
\* newSession is still pending and after disconnect() has killed it
AgentNotifies(kind, payload) ==
  /\ rpcOn # 0
  /\ Alive(rpcOn)
  /\ handleSessionUpdate(kind, payload)
  /\ UNCHANGED <<lifeVars, toolVars, permVars, otherVars, agentCaps, setModeRpc,
                 establishRpc, nEstablish>>

\* the host starts a connect() on a client that is disconnected and has no
\* call in flight
connectWhenDisconnected ==
  /\ Disconnected
  /\ connPc = "idle"
  /\ ~setModeRpc.pending
  /\ ~establishRpc.pending
  /\ connect(TRUE, TRUE)

NextSess ==
  \/ connectWhenDisconnected
  \/ \E caps \in BOOLEAN : InitializeResolves(caps)
  \/ \E res \in SessionResults : NewSessionResolves(res)
  \/ disconnect
  \/ \E m \in ModeIds : setMode(m)
  \/ SetModeResolves
  \/ SetModeRejects
  \/ loadSession
  \/ resumeSession
  \/ \E res \in SessionResults : EstablishResolves(res)
  \/ EstablishRejects
  \/ \E k \in UpdateKinds : \E p \in PayloadsOf(k) : AgentNotifies(k, p)

\* session-state specification: the plugin's configuration of the client
InitSess ==
  /\ adapter = "native"
  /\ hasOnEvent = TRUE
  /\ ClientConstructed
  /\ ChatViewFresh
  /\ permissionHandler = TRUE
  /\ NoRequestYet
  /\ SessionStateFresh
  /\ NoInboundYet
  /\ NoEditTracked
  /\ NoTerminalYet
  /\ NothingExtraYet

SpecSess == InitSess /\ [][NextSess]_vars

\* ------------------------------------------------------------ tool calls
\* agent notification -> NativeAcpClient.handleSessionUpdate -> onEvent ->
\* ObsidianAcpClient.handleStreamEvent -> plugin events -> ChatView ->
\* ToolCallCard.  The chat view is open throughout.

\* variant: the statusMap has lost its "failed" entry
mapToolStatus_noFailed(status) ==
  IF status = Absent THEN Absent
  ELSE IF status \in {"pending", "in_progress", "completed"} THEN status
  ELSE "pending"

mapToolStatus(status) ==
  IF status = Absent THEN Absent
  ELSE IF status \in ToolStatuses THEN status
  ELSE "pending"

\* handleSessionUpdate, case tool_call_update: the tool_call_delta event
handleSessionUpdate_toolCallUpdate(id, status) ==
  [type |-> "tool_call_delta", toolCallId |-> id,
   status |-> mapToolStatus(status)]

\* handleSessionUpdate, case tool_call: the tool_call_start event (the
\* status of the notification is not carried)
handleSessionUpdate_toolCall(id) ==
  [type |-> "tool_call_start", toolCallId |-> id, status |-> Absent]

\* ObsidianAcpClient.handleStreamEvent: what onToolCall / onToolCallUpdate get
handleStreamEvent(event) ==
  IF event.type = "tool_call_start"
  THEN [sessionUpdate |-> "tool_call", toolCallId |-> event.toolCallId,
        status |-> "in_progress"]
  ELSE [sessionUpdate |-> "tool_call_update", toolCallId |-> event.toolCallId,
        status |-> event.status]

\* ToolCallCard constructor: updateStatus(toolCall.status ?? "pending")
ToolCallCard_new(toolCall) ==
  IF toolCall.status = Absent THEN "pending" ELSE toolCall.status

\* ToolCallCard.update: if (update.status) updateStatus(update.status)
ToolCallCard_update(shown, update) ==
  IF update.status # Absent THEN update.status ELSE shown

\* ChatView.onToolCall: a new card, registered under the toolCallId
onToolCall(toolCall) ==
  /\ cardStatus' = [cardStatus EXCEPT
                      ![toolCall.toolCallId] = ToolCallCard_new(toolCall)]
  /\ toolCallCards' = toolCallCards \cup {toolCall.toolCallId}

\* variant: an update for an id without a card makes a card for it
onToolCallUpdate_upsert(update) ==
  /\ cardStatus' =
       [cardStatus EXCEPT ![update.toolCallId] =
          ToolCallCard_update(IF update.toolCallId \in toolCallCards
                              THEN cardStatus[update.toolCallId]
                              ELSE "pending", update)]
  /\ toolCallCards' = toolCallCards \cup {update.toolCallId}

\* ChatView.onToolCallUpdate: update the card when one is registered,
\* else warn and leave everything as it is
onToolCallUpdate(update) ==
  /\ cardStatus' =
       IF update.toolCallId \in toolCallCards
       THEN [cardStatus EXCEPT ![update.toolCallId] =
               ToolCallCard_update(cardStatus[update.toolCallId], update)]
       ELSE cardStatus
  /\ UNCHANGED toolCallCards

\* the agent announces a tool call (ids are not announced twice)
ToolCall(id) ==
  /\ id \notin toolCallCards
  /\ onToolCall(handleStreamEvent(handleSessionUpdate_toolCall(id)))
  /\ updates' = [updates EXCEPT ![id] = <<>>]
  /\ UNCHANGED <<lifeVars, permVars, restVars>>

\* the agent sends tool_call_update{toolCallId: id, status}
ToolCallUpdate(id, status) ==
  /\ Len(updates[id]) < MaxUpdates
  /\ onToolCallUpdate(
       handleStreamEvent(handleSessionUpdate_toolCallUpdate(id, status)))
  /\ updates' = IF id \in toolCallCards
                THEN [updates EXCEPT ![id] = Append(@, status)]
                ELSE updates
  /\ UNCHANGED <<lifeVars, permVars, restVars>>

NextTool ==
  \/ \E id \in ToolIds : ToolCall(id)
  \/ \E id \in ToolIds, st \in ToolStatuses \cup {Absent} : ToolCallUpdate(id, st)

SpecTool == InitTool /\ [][NextTool]_vars

\* ----------------------------------------------------------- permissions
\* params.options.find((opt) => opt.kind === "allow_once")?.optionId
RECURSIVE FirstAllowOnce(_)
FirstAllowOnce(opts) ==
  IF opts = <<>> THEN Absent
  ELSE IF Head(opts).kind = "allow_once" THEN Head(opts).optionId
  ELSE FirstAllowOnce(Tail(opts))

\* variant: an optionId in the handler's result is taken as a selection,
\* whatever granted says
handleRequestPermission_respond_byOptionId(opts, result) ==
  IF result.granted \/ result.optionId # Absent
  THEN Selected(IF result.optionId # Absent THEN result.optionId
                ELSE IF FirstAllowOnce(opts) # Absent THEN FirstAllowOnce(opts)
                ELSE IF opts # <<>> THEN opts[1].optionId
                ELSE "allow")
  ELSE Cancelled

\* handleRequestPermission after the handler returned:
\*   granted: response.optionId ?? allowOption?.optionId
\*            ?? params.options[0]?.optionId ?? "allow"
handleRequestPermission_respond(opts, result) ==
  IF result.granted
  THEN Selected(IF result.optionId # Absent THEN result.optionId
                ELSE IF FirstAllowOnce(opts) # Absent THEN FirstAllowOnce(opts)
                ELSE IF opts # <<>> THEN opts[1].optionId
                ELSE "allow")
  ELSE Cancelled

\* variant: without a handler the request is granted with its first option
handleRequestPermission_noHandler_allow(r, opts) ==
  /\ responses' = [responses EXCEPT ![r] =
                     Append(@, Selected(IF opts # <<>> THEN opts[1].optionId
                                        ELSE "allow"))]
  /\ reqState' = [reqState EXCEPT ![r] = "answered"]
  /\ UNCHANGED <<handlerCalls, handlerGave, activePermissionCards>>

\* handleRequestPermission, no handler registered: auto-deny
handleRequestPermission_noHandler(r, opts) ==
  /\ responses' = [responses EXCEPT ![r] = Append(@, Cancelled)]
  /\ reqState' = [reqState EXCEPT ![r] = "answered"]
  /\ UNCHANGED <<handlerCalls, handlerGave, activePermissionCards>>

\* handleRequestPermission, from the inbound request to the await of the
\* host handler.  withCard: the handler is the chat view's, which puts a
\* PermissionCard into activePermissionCards and waits on it
handleRequestPermission(r, opts, withCard) ==
  /\ reqOptions' = [reqOptions EXCEPT ![r] = opts]
  /\ IF ~permissionHandler
     THEN handleRequestPermission_noHandler(r, opts)
     ELSE /\ handlerCalls' = [handlerCalls EXCEPT ![r] = @ + 1]
          /\ reqState' = [reqState EXCEPT ![r] = "pending"]
          /\ activePermissionCards' =
               IF withCard THEN activePermissionCards \cup {r}
               ELSE activePermissionCards
          /\ UNCHANGED <<responses, handlerGave>>

\* the agent sends a permission request
RequestPermission(r, opts, withCard) ==
  /\ reqState[r] = "none"
  /\ handleRequestPermission(r, opts, withCard)
  /\ UNCHANGED <<lifeVars, toolVars, restVars, permissionHandler>>

\* the host handler returns {granted, optionId?}
HandlerReturns(r, granted, optionId) ==
  /\ reqState[r] = "pending"
  /\ handlerGave' = [handlerGave EXCEPT ![r] = Returned(granted, optionId)]
  /\ responses' = [responses EXCEPT ![r] =
       Append(@, handleRequestPermission_respond(reqOptions[r],
                                                 Returned(granted, optionId)))]
  /\ reqState' = [reqState EXCEPT ![r] = "answered"]
  /\ activePermissionCards' = activePermissionCards \ {r}
  /\ UNCHANGED <<lifeVars, toolVars, restVars, permissionHandler, reqOptions,
                 handlerCalls>>

\* the host handler throws: the await in handleRequestPermission rethrows,
\* the method returns no outcome
HandlerThrows(r) ==
  /\ reqState[r] = "pending"
  /\ handlerGave' = [handlerGave EXCEPT ![r] = Threw]
  /\ reqState' = [reqState EXCEPT ![r] = "failed"]
  /\ activePermissionCards' = activePermissionCards \ {r}
  /\ UNCHANGED <<lifeVars, toolVars, restVars, permissionHandler, reqOptions,
                 responses, handlerCalls>>

\* PermissionCard.cancel(): the card's waitForResponse resolves cancelled
PermissionCard_cancel == Cancelled

\* ObsidianAcpClient permission handler: the card's response as a result
permissionHandler_result(opts, response) ==
  IF response.outcome = "selected"
  THEN Returned(\E i \in 1..Len(opts) :
                   /\ opts[i].optionId = response.optionId
                   /\ opts[i].kind \in {"allow_once", "allow_always"},
                response.optionId)
  ELSE Returned(FALSE, Absent)

\* ChatView.onClose: cancel every active permission card; each pending
\* handler then returns, and handleRequestPermission answers
ChatView_onClose ==
  /\ activePermissionCards # {}
  /\ handlerGave' = [r \in Reqs |->
       IF r \in activePermissionCards
       THEN permissionHandler_result(reqOptions[r], PermissionCard_cancel)
       ELSE handlerGave[r]]
  /\ responses' = [r \in Reqs |->
       IF r \in activePermissionCards
       THEN Append(responses[r],
              handleRequestPermission_respond(reqOptions[r],
                permissionHandler_result(reqOptions[r], PermissionCard_cancel)))
       ELSE responses[r]]
  /\ reqState' = [r \in Reqs |->
       IF r \in activePermissionCards THEN "answered" ELSE reqState[r]]
  /\ activePermissionCards' = {}
  /\ UNCHANGED <<lifeVars, toolVars, restVars, permissionHandler, reqOptions,
                 handlerCalls>>

setPermissionHandler ==
  /\ ~permissionHandler
  /\ permissionHandler' = TRUE
  /\ UNCHANGED <<lifeVars, toolVars, restVars, reqState, reqOptions, responses,
                 handlerCalls, handlerGave, activePermissionCards>>

NextPerm ==
  \/ \E r \in Reqs, o \in OptionLists, c \in BOOLEAN : RequestPermission(r, o, c)
  \/ \E r \in Reqs, g \in BOOLEAN, id \in HandlerOptionIds : HandlerReturns(r, g, id)
  \/ \E r \in Reqs : HandlerThrows(r)
  \/ ChatView_onClose
  \/ setPermissionHandler

SpecPerm == InitPerm /\ [][NextPerm]_vars

\* ------------------------------------------------------ inbound requests
\* an inbound request is answered to the agent
respond(r, answer) ==
  /\ inState' = [inState EXCEPT ![r] = "answered"]
  /\ inAnswer' = [inAnswer EXCEPT ![r] = answer]
  /\ answeredOrder' = Append(answeredOrder, r)

\* an inbound request waits on its host handler
awaitHostHandler(r) ==
  /\ inState' = [inState EXCEPT ![r] = "pending"]
  /\ UNCHANGED <<inAnswer, answeredOrder>>

\* the outcome of a permission request as an answer record
PermissionAnswer(outcome) == Answer(outcome.outcome, outcome.optionId)

\* handleRequestPermission up to the await of this.permissionHandler
handleRequestPermission_call(r) ==
  /\ IF ~permissionHandler
     THEN respond(r, PermissionAnswer(Cancelled))
     ELSE awaitHostHandler(r)
  /\ UNCHANGED <<terminals, termVars>>

\* handleReadTextFile up to the await of config.fileSystem.readFile (the
\* plugin always configures fileSystem)
handleReadTextFile_call(r) ==
  /\ awaitHostHandler(r)
  /\ UNCHANGED <<terminals, termVars>>

\* handleWriteTextFile up to the await of config.fileSystem.writeFile
handleWriteTextFile_call(r) ==
  /\ awaitHostHandler(r)
  /\ UNCHANGED <<terminals, termVars>>

\* handleCreateTerminal: no await, the terminal id is returned at once
handleCreateTerminal(r) ==
  /\ registerTerminal(nextTerminalId, FALSE)
  /\ respond(r, Answer("terminal", Absent))

\* variant: a method waits for the requests before it to be answered
createAcpClientImpl_queued(r, kind) ==
  /\ \A q \in InReqs : inState[q] # "pending"
  /\ CASE kind = "requestPermission" -> handleRequestPermission_call(r)
       [] kind = "readTextFile" -> handleReadTextFile_call(r)
       [] kind = "writeTextFile" -> handleWriteTextFile_call(r)
       [] kind = "createTerminal" -> handleCreateTerminal(r)

\* createAcpClientImpl: each method hands its request to its own handler
createAcpClientImpl(r, kind) ==
  CASE kind = "requestPermission" -> handleRequestPermission_call(r)
    [] kind = "readTextFile" -> handleReadTextFile_call(r)
    [] kind = "writeTextFile" -> handleWriteTextFile_call(r)
    [] kind = "createTerminal" -> handleCreateTerminal(r)

\* the agent may send to the client once the connection object exists and
\* until its subprocess has exited
AgentCanSend == rpcOn # 0 /\ Alive(rpcOn)

\* the connection reads a request of the agent and calls the method for
\* it, whatever earlier requests are still waiting on their handlers
InboundRequest(r, kind) ==
  /\ AgentCanSend
  /\ inState[r] = "none"
  /\ IF r = 1 THEN TRUE ELSE inState[r - 1] # "none"
  /\ inKind' = [inKind EXCEPT ![r] = kind]
  /\ createAcpClientImpl(r, kind)
  /\ UNCHANGED <<lifeVars, toolVars, permVars, sessVars, viewVars, extraVars,
                 settledOrder>>

\* the continuation of a handle* method after its await
answerAfterHandler(kind, result) ==
  CASE kind = "requestPermission" ->
         PermissionAnswer(handleRequestPermission_respond(InboundOptions, result))
    [] kind = "readTextFile" -> Answer("content", result)
    [] kind = "writeTextFile" -> Answer("written", Absent)

\* the host handler of a pending request of the given method resolves
HostHandlerResolves(r, kind, result) ==
  /\ inState[r] = "pending"
  /\ inKind[r] = kind
  /\ settledOrder' = Append(settledOrder, r)
  /\ respond(r, answerAfterHandler(inKind[r], result))
  /\ UNCHANGED <<lifeVars, toolVars, permVars, sessVars, viewVars, termVars, extraVars,
                 inKind, terminals>>

\* the host handler of a pending request throws: no handle* method has a
\* try/catch, its promise rejects and the request fails with an error
HostHandlerThrows(r) ==
  /\ inState[r] = "pending"
  /\ settledOrder' = Append(settledOrder, r)
  /\ inState' = [inState EXCEPT ![r] = "failed"]
  /\ inAnswer' = [inAnswer EXCEPT ![r] = ErrorAnswer]
  /\ UNCHANGED <<lifeVars, toolVars, permVars, sessVars, viewVars, termVars, extraVars,
                 inKind, answeredOrder, terminals>>

NextInbound ==
  \/ connectWhenDisconnected
  \/ InitializeResolves(FALSE)
  \/ NewSessionResolves(BareResult)
  \/ \E r \in InReqs, k \in InKinds : InboundRequest(r, k)
  \/ \E r \in InReqs, g \in BOOLEAN :
       HostHandlerResolves(r, "requestPermission", Returned(g, Absent))
  \/ \E r \in InReqs : HostHandlerResolves(r, "readTextFile", "data")
  \/ \E r \in InReqs : HostHandlerResolves(r, "writeTextFile", Absent)
  \/ \E r \in InReqs : HostHandlerThrows(r)
  \/ AgentNotifies("agent_message_chunk", "text")
  \/ AgentNotifies("user_message_chunk", Absent)

\* inbound-request specification: with or without a permission handler
InitInbound ==
  /\ adapter = "native"
  /\ hasOnEvent = TRUE
  /\ ClientConstructed
  /\ ChatViewFresh
  /\ permissionHandler \in BOOLEAN
  /\ NoRequestYet
  /\ SessionStateFresh
  /\ NoInboundYet
  /\ NoEditTracked
  /\ NoTerminalYet
  /\ NothingExtraYet

SpecInbound == InitInbound /\ [][NextInbound]_vars

\* ------------------------------------------- chat view: edit permissions
\* agent -> NativeAcpClient -> ObsidianAcpClient -> plugin events -> ChatView

\* variant: the tool_call_start event carries the kind and the first
\* location of the notification
toolCallStart_editInfo_carried(kind, path) ==
  [kind |-> kind, path |-> path]

\* what onToolCall gets of update.kind and update.locations: the
\* tool_call_start event of handleSessionUpdate has toolCallId, toolName
\* and title only, so handleStreamEvent reads undefined for both
toolCallStart_editInfo(kind, path) ==
  [kind |-> Absent, path |-> Absent]

\* ChatView.onToolCall, tracking of edits by file
onToolCall_trackEdit(id, info) ==
  pendingEditsByFile' =
    IF info.kind = "edit" /\ info.path # Absent
    THEN [pendingEditsByFile EXCEPT ![info.path] = @ \cup {id}]
    ELSE pendingEditsByFile

\* ChatView.removeFromPendingEdits
removeFromPendingEdits(id) ==
  pendingEditsByFile' = [f \in Files |-> pendingEditsByFile[f] \ {id}]

\* the agent announces a tool call of some kind on some file
ViewToolCall(id, kind, path) ==
  /\ id \notin toolCallCards
  /\ onToolCall(handleStreamEvent(handleSessionUpdate_toolCall(id)))
  /\ updates' = [updates EXCEPT ![id] = <<>>]
  /\ onToolCall_trackEdit(id, toolCallStart_editInfo(kind, path))
  /\ UNCHANGED <<lifeVars, permVars, sessVars, inVars, termVars, extraVars, autoApprovedFiles,
                 cardFile, cardMulti, userChose, warned>>

\* the agent sends tool_call_update{toolCallId: id, status}
ViewToolCallUpdate(id, status) ==
  /\ Len(updates[id]) < MaxUpdates
  /\ onToolCallUpdate(
       handleStreamEvent(handleSessionUpdate_toolCallUpdate(id, status)))
  /\ updates' = IF id \in toolCallCards
                THEN [updates EXCEPT ![id] = Append(@, status)]
                ELSE updates
  /\ warned' = IF id \in toolCallCards THEN warned ELSE warned \cup {id}
  /\ IF mapToolStatus(status) \in {"completed", "failed"}
     THEN removeFromPendingEdits(id)
     ELSE UNCHANGED pendingEditsByFile
  /\ UNCHANGED <<lifeVars, permVars, sessVars, inVars, termVars, extraVars, autoApprovedFiles,
                 cardFile, cardMulti, userChose>>

\* ChatView.resetStreamingState
resetStreamingState ==
  /\ toolCallCards' = {}
  /\ cardStatus' = [t \in ToolIds |-> "none"]
  /\ updates' = [t \in ToolIds |-> <<>>]
  /\ pendingEditsByFile' = [f \in Files |-> {}]
  /\ autoApprovedFiles' = [f \in Files |-> NoResponse]
  /\ UNCHANGED <<lifeVars, permVars, sessVars, inVars, termVars, extraVars, cardFile, cardMulti,
                 userChose, warned>>

\* onPermissionRequest: the file path, from locations[0].path or else from
\* a title of the form Edit `path`
permissionFilePath(locPath, titlePath) ==
  IF locPath # Absent THEN locPath ELSE titlePath

\* onPermissionRequest: isEditPermission
isEditPermission(kind, locPath, titlePath) ==
  kind = "edit" \/ (locPath = Absent /\ titlePath # Absent)

\* option.kind.includes("allow") for the option with this id
IsAllowOption(opts, optionId) ==
  \E i \in 1..Len(opts) :
    /\ opts[i].optionId = optionId
    /\ opts[i].kind \in {"allow_once", "allow_always"}

\* the response of the chat view goes back through the permission handler
\* of ObsidianAcpClient and handleRequestPermission to the agent
answerPermission(r, response) ==
  /\ handlerGave' = [handlerGave EXCEPT ![r] =
                       permissionHandler_result(CardOptions, response)]
  /\ responses' = [responses EXCEPT ![r] =
       Append(@, handleRequestPermission_respond(CardOptions,
                   permissionHandler_result(CardOptions, response)))]
  /\ reqState' = [reqState EXCEPT ![r] = "answered"]

\* a permission request of the agent reaches ChatView.onPermissionRequest
\* (handleRequestPermission passes locations and title, not the kind):
\* answered from autoApprovedFiles, or a card is shown
ViewPermissionRequest(r, locPath, titlePath) ==
  /\ reqState[r] = "none"
  /\ permissionHandler
  /\ reqOptions' = [reqOptions EXCEPT ![r] = CardOptions]
  /\ handlerCalls' = [handlerCalls EXCEPT ![r] = @ + 1]
  /\ LET filePath == permissionFilePath(locPath, titlePath)
         isEdit == isEditPermission(Absent, locPath, titlePath)
     IN  /\ cardFile' = [cardFile EXCEPT ![r] = filePath]
         /\ IF isEdit /\ filePath # Absent
               /\ autoApprovedFiles[filePath] # NoResponse
            THEN /\ answerPermission(r, autoApprovedFiles[filePath])
                 /\ UNCHANGED <<activePermissionCards, cardMulti>>
            ELSE /\ reqState' = [reqState EXCEPT ![r] = "pending"]
                 /\ activePermissionCards' = activePermissionCards \cup {r}
                 /\ cardMulti' = [cardMulti EXCEPT ![r] =
                      /\ isEdit
                      /\ filePath # Absent
                      /\ Cardinality(pendingEditsByFile[filePath]) > 1]
                 /\ UNCHANGED <<responses, handlerGave>>
  /\ UNCHANGED <<lifeVars, toolVars, sessVars, inVars, termVars, extraVars, permissionHandler,
                 pendingEditsByFile, autoApprovedFiles, userChose, warned>>

\* PermissionCard: the user picks an option, waitForResponse resolves
PermissionCard_select(optionId) == Selected(optionId)

\* the user picks an option on the card of a request; a multi-edit card
\* stores an approval for the file
UserSelects(r, optionId) ==
  /\ r \in activePermissionCards
  /\ reqState[r] = "pending"
  /\ userChose' = [userChose EXCEPT ![r] = TRUE]
  /\ activePermissionCards' = activePermissionCards \ {r}
  /\ autoApprovedFiles' =
       IF cardMulti[r] /\ IsAllowOption(CardOptions, optionId)
       THEN [autoApprovedFiles EXCEPT ![cardFile[r]] =
               PermissionCard_select(optionId)]
       ELSE autoApprovedFiles
  /\ answerPermission(r, PermissionCard_select(optionId))
  /\ UNCHANGED <<lifeVars, toolVars, sessVars, inVars, termVars, extraVars, permissionHandler,
                 reqOptions, handlerCalls, pendingEditsByFile, cardFile,
                 cardMulti, warned>>

NextView ==
  \/ \E id \in ToolIds, k \in {"edit", "read"}, p \in Files \cup {Absent} :
       ViewToolCall(id, k, p)
  \/ \E id \in ToolIds : ViewToolCallUpdate(id, "completed")
  \/ resetStreamingState
  \/ \E r \in Reqs, lp \in Files \cup {Absent}, tp \in Files \cup {Absent} :
       ViewPermissionRequest(r, lp, tp)
  \/ \E r \in Reqs, o \in {"a", "b"} : UserSelects(r, o)

\* chat-view specification: the plugin's client with its chat view open
InitView ==
  /\ adapter = "native"
  /\ hasOnEvent = TRUE
  /\ ClientConstructed
  /\ ChatViewFresh
  /\ permissionHandler = TRUE
  /\ NoRequestYet
  /\ SessionStateFresh
  /\ NoInboundYet
  /\ NoEditTracked
  /\ NoTerminalYet
  /\ NothingExtraYet

SpecView == InitView /\ [][NextView]_vars

\* ---------------------------------------------------------------- terminals
\* createTerminal() of the host: throws "Not connected" unless connected,
\* otherwise allocates the next id, registers the handle and returns it
createTerminal ==
  /\ isConnected
  /\ registerTerminal(nextTerminalId, TRUE)
  /\ UNCHANGED <<lifeVars, toolVars, permVars, sessVars, viewVars, extraVars,
                 inKind, inState, inAnswer, settledOrder, answeredOrder>>

HostCreatesTerminal == terminals < MaxTerminals /\ createTerminal

HostCreatesHandle == terminals < MaxHandles /\ createTerminal

\* the host calls release() on a handle it holds
Release(t) ==
  /\ handles[t].host
  /\ handles[t].process
  /\ handles' = [handles EXCEPT ![t] = release(t)]
  /\ UNCHANGED <<lifeVars, toolVars, permVars, sessVars, inVars, viewVars, extraVars,
                 registry, allocated>>

\* the host calls kill() on a handle it holds
Kill(t) ==
  /\ handles[t].host
  /\ handles' = [handles EXCEPT ![t] = afterKill(t)]
  /\ UNCHANGED <<lifeVars, toolVars, permVars, sessVars, inVars, viewVars, extraVars,
                 registry, allocated>>

\* variant: a later resolve replaces the value of the promise
exitResolve_overwrite(p, status) == status

\* this.exitResolve(status): a promise takes the value of the first resolve
exitResolve(p, status) == IF p = NoCode THEN status ELSE p

\* handle h after exitResolve(status): the promise has its value and the
\* callers awaiting it receive that value
settle(h, status) ==
  LET v == exitResolve(h.exitPromise, status)
  IN [h EXCEPT !.exitPromise = v,
               !.waitGot = [c \in Callers |-> IF h.waitGot[c] = Waiting
                                              THEN v ELSE h.waitGot[c]]]

\* process.on("exit"): exitCode = code ?? 0, then exitResolve
ExitEvent(t, code) ==
  /\ ProcessAlive(t)
  /\ handles' = [handles EXCEPT
                   ![t] = settle([handles[t] EXCEPT !.os = "exited",
                                                    !.exitCode = code], code)]
  /\ UNCHANGED <<lifeVars, toolVars, permVars, sessVars, inVars, viewVars, extraVars,
                 registry, allocated>>

\* process.on("error"): the message is appended to the output, then
\* exitResolve with code 1; exitCode stays null.  The event comes for a
\* spawn that failed, or for a running child that could not be signalled.
ErrorEvent(t) ==
  /\ handles[t].os \in {"failing", "running"}
  /\ handles' = [handles EXCEPT
                   ![t] = settle([handles[t] EXCEPT
                                    !.os = IF @ = "failing" THEN "failed"
                                           ELSE "errored"], ErrorCode)]
  /\ UNCHANGED <<lifeVars, toolVars, permVars, sessVars, inVars, viewVars, extraVars,
                 registry, allocated>>

\* waitForExit() returns this.exitPromise: a caller of a settled promise
\* receives its value, a caller of a pending one waits
WaitForExit(t, c) ==
  /\ handles[t].host
  /\ handles[t].waitGot[c] = NotCalled
  /\ handles' = [handles EXCEPT
                   ![t].waitGot[c] = IF handles[t].exitPromise # NoCode
                                     THEN handles[t].exitPromise ELSE Waiting]
  /\ UNCHANGED <<lifeVars, toolVars, permVars, sessVars, inVars, viewVars, extraVars,
                 registry, allocated>>

\* connect/disconnect cycles with terminals created by the host and by the
\* agent, and released by the host
NextTerm ==
  \/ connectWhenDisconnected
  \/ InitializeResolves(FALSE)
  \/ NewSessionResolves(BareResult)
  \/ disconnect
  \/ HostCreatesTerminal
  \/ \E r \in InReqs : InboundRequest(r, "createTerminal")
  \/ \E t \in TermIds : Release(t)

InitTerm ==
  /\ adapter = "native"
  /\ hasOnEvent = TRUE
  /\ ClientConstructed
  /\ ChatViewFresh
  /\ permissionHandler = TRUE
  /\ NoRequestYet
  /\ SessionStateFresh
  /\ NoInboundYet
  /\ NoEditTracked
  /\ NoTerminalYet
  /\ NothingExtraYet

SpecTerm == InitTerm /\ [][NextTerm]_vars

\* the life of the handles the host holds: process events, waitForExit
\* callers, kill and release
NextHandle ==
  \/ connectWhenDisconnected
  \/ InitializeResolves(FALSE)
  \/ NewSessionResolves(BareResult)
  \/ HostCreatesHandle
  \/ \E t \in TermIds, code \in ExitCodes : ExitEvent(t, code)
  \/ \E t \in TermIds : ErrorEvent(t)
  \/ \E t \in TermIds, c \in Callers : WaitForExit(t, c)
  \/ \E t \in TermIds : Kill(t)
  \/ \E t \in TermIds : Release(t)

SpecHandle == InitTerm /\ [][NextHandle]_vars

\* ------------------------------------------------------------------ cancel
\* variant: the notification is sent whatever the connection state
cancel_unchecked ==
  /\ rpc' = [rpc EXCEPT !.cancelSent = @ + 1]
  /\ UNCHANGED <<lifeVars, toolVars, permVars, sessVars, inVars, viewVars, termVars, modals, hostCall>>

\* cancel(): return at once without connection or session, else hand a
\* session/cancel notification to the connection; nothing else is written
cancel ==
  /\ rpc' = [rpc EXCEPT !.cancelSent = IF connection = 0 \/ session = 0
                                       THEN @ ELSE @ + 1]
  /\ UNCHANGED <<lifeVars, toolVars, permVars, sessVars, inVars, viewVars, termVars, modals, hostCall>>

HostCancels == rpc.cancelSent < MaxCancels /\ cancel

\* prompt cycles on either adapter with cancel() called at any moment; the
\* agent answers the prompt with cancelled or end_turn when it chooses
NextCancel ==
  \/ connectWhenDisconnected
  \/ InitializeResolves(FALSE)
  \/ NewSessionResolves(BareResult)
  \/ disconnect
  \/ sendMessage
  \/ GenFirstNext
  \/ GenResume
  \/ \E r \in {"cancelled", "end_turn"} : PromptResolves(r)
  \/ GenFinish
  \/ HostCancels

SpecCancel == InitLive /\ [][NextCancel]_vars

\* ------------------------------------------------- requests of the client
\* the ids of the outstanding requests
Outstanding == DOMAIN rpc.table

\* variant: a response settles the oldest outstanding request
matchResponse_oldest(id) ==
  rpc.table[CHOOSE i \in Outstanding : \A j \in Outstanding : i <= j]

\* Connection: a response is matched to the outstanding request by its id
matchResponse(id) == rpc.table[id]

\* Connection: the request gets the next id and is outstanding until its
\* response arrives; the caller m waits for the promise it got back
sendRequest(m) ==
  [rpc EXCEPT !.table = (rpc.nextId :> m) @@ @,
              !.nextId = @ + 1,
              !.call = (m :> [id |-> rpc.nextId, got |-> 0]) @@ @]

\* await this.connection.prompt / setSessionMode / loadSession: the caller
\* sends its request and waits for the promise the connection returned
callRpc(m) ==
  /\ isConnected
  /\ rpc.nextId <= MaxRpcs
  /\ m \in DOMAIN rpc.call => rpc.call[m].got # 0
  /\ rpc' = sendRequest(m)
  /\ UNCHANGED <<lifeVars, toolVars, permVars, sessVars, inVars, viewVars, termVars, modals, hostCall>>

\* the agent's response to request id arrives: the promise of the matched
\* caller resolves with it
Response(id) ==
  /\ AgentCanSend
  /\ rpc' = [rpc EXCEPT
               !.call[matchResponse(id)].got = id,
               !.table = [i \in Outstanding \ {id} |-> rpc.table[i]],
               !.answered = Append(@, id)]
  /\ UNCHANGED <<lifeVars, toolVars, permVars, sessVars, inVars, viewVars, termVars, modals, hostCall>>

\* a connected client whose host has several requests in flight, answered
\* by the agent in any order
NextRpc ==
  \/ connectWhenDisconnected
  \/ InitializeResolves(FALSE)
  \/ NewSessionResolves(BareResult)
  \/ \E m \in RpcMethods : callRpc(m)
  \/ \E id \in Outstanding : Response(id)

SpecRpc == InitTerm /\ [][NextRpc]_vars

\* --------------------------------------------------------- PermissionModal
isAllowKind(o) == o.kind \in {"allow_once", "allow_always"}

\* the options of a request that grant (allow_once / allow_always)
allowOptions(opts) == SelectSeq(opts, isAllowKind)

\* onOpen: the first allow option is selected by default, else none is
defaultSelection(opts) ==
  IF Len(allowOptions(opts)) > 0 THEN allowOptions(opts)[1].optionId ELSE Absent

\* new PermissionModal(app, request), waitForResponse(): a new promise
\* whose resolve is kept, then open(), which runs onOpen
waitForResponse(opts) ==
  /\ Len(modals) < MaxModals
  /\ modals' = Append(modals,
                      [state |-> "open", options |-> opts,
                       resolvePromise |-> TRUE,
                       selectedOptionId |-> defaultSelection(opts),
                       resolved |-> <<>>, closedBy |-> "none"])
  /\ UNCHANGED <<lifeVars, toolVars, permVars, sessVars, inVars, viewVars, termVars, rpc, hostCall>>

\* the change listener of a radio button of the open modal
RadioChange(m, i) ==
  /\ modals[m].state = "open"
  /\ i \in 1..Len(modals[m].options)
  /\ modals' = [modals EXCEPT
                  ![m].selectedOptionId = modals[m].options[i].optionId]
  /\ UNCHANGED <<lifeVars, toolVars, permVars, sessVars, inVars, viewVars, termVars, rpc, hostCall>>

\* onClose: a resolve that is still set is called with cancelled and
\* cleared.  rp: this.resolvePromise is set, res: the results passed so far
onClose(rp, res) == IF rp THEN Append(res, Cancelled) ELSE res

\* modal d after this.close(): the modal goes away and onClose runs
close(d, rp, res) ==
  [d EXCEPT !.state = "closed", !.resolved = onClose(rp, res),
            !.resolvePromise = FALSE]

\* variant: handleConfirm resolves and leaves this.resolvePromise set
handleConfirm_keepsResolver(d) ==
  LET hit == d.selectedOptionId # Absent /\ d.resolvePromise
  IN close(d, d.resolvePromise,
           IF hit THEN Append(d.resolved, Selected(d.selectedOptionId))
           ELSE d.resolved)

\* handleConfirm: with an option selected and the resolve still set, resolve
\* with selected and clear the resolve; then close()
handleConfirm(d) ==
  LET hit == d.selectedOptionId # Absent /\ d.resolvePromise
  IN close(d, IF hit THEN FALSE ELSE d.resolvePromise,
           IF hit THEN Append(d.resolved, Selected(d.selectedOptionId))
           ELSE d.resolved)

\* handleCancel: with the resolve still set, resolve with cancelled and
\* clear the resolve; then close()
handleCancel(d) ==
  close(d, FALSE,
        IF d.resolvePromise THEN Append(d.resolved, Cancelled) ELSE d.resolved)

\* the user ends the open modal: the Confirm button or Enter, the Cancel
\* button or Escape, or closing it (which runs close() alone)
UserCloses(m, way) ==
  /\ modals[m].state = "open"
  /\ LET d == [modals[m] EXCEPT !.closedBy = way]
     IN modals' = [modals EXCEPT ![m] =
                     CASE way \in {"confirm", "enter"} -> handleConfirm(d)
                       [] way \in {"cancel", "escape"} -> handleCancel(d)
                       [] way = "close" -> close(d, d.resolvePromise, d.resolved)]
  /\ UNCHANGED <<lifeVars, toolVars, permVars, sessVars, inVars, viewVars, termVars, rpc, hostCall>>

NextModal ==
  \/ \E opts \in OptionLists : waitForResponse(opts)
  \/ \E m \in DOMAIN modals, i \in 1..2 : RadioChange(m, i)
  \/ \E m \in DOMAIN modals, way \in CloseWays : UserCloses(m, way)

SpecModal == InitTerm /\ [][NextModal]_vars

\* ------------------------------------------------- setModel, setConfigOption
\* what the host asks for in these calls
SetModelArgs == {"y"}
ConfigIds == {"c1"}
ValueIds == {"v1"}
\* result.configOptions of unstable_setSessionConfigOption
SetConfigResults == {<<"c3">>}

CallPending(op, arg, value, p) ==
  [op |-> op, arg |-> arg, value |-> value, state |-> "pending", proc |-> p,
   result |-> Absent]

\* throw new Error("Not connected"), or the await of the RPC rejecting
CallThrew(op, arg, value) ==
  [op |-> op, arg |-> arg, value |-> value, state |-> "threw", proc |-> 0,
   result |-> Absent]

Setters == {"setMode", "setModel", "setConfigOption"}

\* the first statement of setMode, setModel and setConfigOption:
\* if (!this.connection || !this.session) throw, else the RPC is sent
setter_start(op, arg, value) ==
  /\ hostCall.state # "pending"
  /\ hostCall' = IF connection = 0 \/ session = 0
                 THEN CallThrew(op, arg, value)
                 ELSE CallPending(op, arg, value, connection)
  /\ UNCHANGED <<lifeVars, toolVars, permVars, sessVars, inVars, viewVars,
                 termVars, rpc, modals>>

\* setMode called on a client that is not connected
setMode_notConnected(modeId) ==
  /\ ~isConnected
  /\ setter_start("setMode", modeId, Absent)

setModel(modelId) == setter_start("setModel", modelId, Absent)

setConfigOption(configId, valueId) ==
  setter_start("setConfigOption", configId, valueId)

\* variant: the model is stored whether or not the RPC succeeded
setModel_afterRpc_always(modelId, resolved) ==
  /\ currentModel' = modelId
  /\ UNCHANGED <<availableModes, currentMode, availableModels, configOptions>>

\* setModel after the await: this.currentModel = { modeId: modelId } is
\* reached only when unstable_setSessionModel resolved
setModel_afterRpc(modelId, resolved) ==
  /\ currentModel' = IF resolved THEN modelId ELSE currentModel
  /\ UNCHANGED <<availableModes, currentMode, availableModels, configOptions>>

\* setConfigOption after the await: this.configOptions =
\* mapConfigOptions(result.configOptions) is reached only when the RPC
\* resolved
setConfigOption_afterRpc(result, resolved) ==
  /\ configOptions' = IF resolved THEN result ELSE configOptions
  /\ UNCHANGED <<availableModes, currentMode, availableModels, currentModel>>

SetModelResolves ==
  /\ hostCall.state = "pending"
  /\ hostCall.op = "setModel"
  /\ Alive(hostCall.proc)
  /\ setModel_afterRpc(hostCall.arg, TRUE)
  /\ hostCall' = [hostCall EXCEPT !.state = "returned"]
  /\ UNCHANGED <<lifeVars, toolVars, permVars, agentCaps, sessRpcVars, inVars,
                 viewVars, termVars, rpc, modals>>

SetModelRejects ==
  /\ hostCall.state = "pending"
  /\ hostCall.op = "setModel"
  /\ setModel_afterRpc(hostCall.arg, FALSE)
  /\ hostCall' = CallThrew(hostCall.op, hostCall.arg, hostCall.value)
  /\ UNCHANGED <<lifeVars, toolVars, permVars, agentCaps, sessRpcVars, inVars,
                 viewVars, termVars, rpc, modals>>

SetConfigOptionResolves(result) ==
  /\ hostCall.state = "pending"
  /\ hostCall.op = "setConfigOption"
  /\ Alive(hostCall.proc)
  /\ setConfigOption_afterRpc(result, TRUE)
  /\ hostCall' = [hostCall EXCEPT !.state = "returned"]
  /\ UNCHANGED <<lifeVars, toolVars, permVars, agentCaps, sessRpcVars, inVars,
                 viewVars, termVars, rpc, modals>>

SetConfigOptionRejects ==
  /\ hostCall.state = "pending"
  /\ hostCall.op = "setConfigOption"
  /\ setConfigOption_afterRpc(configOptions, FALSE)
  /\ hostCall' = CallThrew(hostCall.op, hostCall.arg, hostCall.value)
  /\ UNCHANGED <<lifeVars, toolVars, permVars, agentCaps, sessRpcVars, inVars,
                 viewVars, termVars, rpc, modals>>

\* connect/disconnect cycles with the three setters called in any state
NextSet ==
  \/ connectWhenDisconnected
  \/ InitializeResolves(FALSE)
  \/ \E res \in SessionResults : NewSessionResolves(res)
  \/ disconnect
  \/ \E m \in ModeIds : setMode(m)
  \/ SetModeResolves
  \/ SetModeRejects
  \/ \E m \in ModeIds : setMode_notConnected(m)
  \/ \E m \in SetModelArgs : setModel(m)
  \/ SetModelResolves
  \/ SetModelRejects
  \/ \E c \in ConfigIds, v \in ValueIds : setConfigOption(c, v)
  \/ \E res \in SetConfigResults : SetConfigOptionResolves(res)
  \/ SetConfigOptionRejects

SpecSet == InitSess /\ [][NextSet]_vars

\* --------------------------------------------------------------- forkSession
\* the session id the host asks to fork, and the id the agent gives the fork
ForkArgs == {"s1"}
ForkedIds == {"f1"}

\* forkSession up to the await: the only test is that this.connection is set
forkSession(sessionId) ==
  /\ hostCall.state # "pending"
  /\ hostCall' = IF connection = 0
                 THEN CallThrew("forkSession", sessionId, Absent)
                 ELSE CallPending("forkSession", sessionId, Absent, connection)
  /\ UNCHANGED <<lifeVars, toolVars, permVars, sessVars, inVars, viewVars,
                 termVars, rpc, modals>>

\* variant: the fork becomes the current session, as in loadSession
forkSession_afterRpc_adopts(result) ==
  /\ hostCall' = [hostCall EXCEPT !.state = "returned", !.result = result]
  /\ sessObjs' = Append(sessObjs, [proc |-> hostCall.proc, isActive |-> TRUE,
                                   disconnected |-> FALSE])
  /\ session' = Len(sessObjs) + 1
  /\ UNCHANGED modeVars

\* forkSession after the await: return result.sessionId, nothing is stored
forkSession_afterRpc(result) ==
  /\ hostCall' = [hostCall EXCEPT !.state = "returned", !.result = result]
  /\ UNCHANGED <<session, sessObjs, modeVars>>

ForkResolves(result) ==
  /\ hostCall.state = "pending"
  /\ hostCall.op = "forkSession"
  /\ Alive(hostCall.proc)
  /\ forkSession_afterRpc(result)
  /\ UNCHANGED <<toolVars, permVars, agentCaps, sessRpcVars, inVars, viewVars,
                 termVars, rpc, modals, adapter, hasOnEvent, process,
                 connection, initResult, closeVars, procState, connVars,
                 genVars, hostLog>>

ForkRejects ==
  /\ hostCall.state = "pending"
  /\ hostCall.op = "forkSession"
  /\ hostCall' = CallThrew(hostCall.op, hostCall.arg, hostCall.value)
  /\ UNCHANGED <<lifeVars, toolVars, permVars, sessVars, inVars, viewVars,
                 termVars, rpc, modals>>

\* sessionId: this.session.id, as sendMessage reads it when it sends the
\* prompt: the Session object that is this.session
promptSessionId == session

\* connect/disconnect cycles with forks and prompts in any order
NextFork ==
  \/ connectWhenDisconnected
  \/ InitializeResolves(FALSE)
  \/ \E res \in SessionResults : NewSessionResolves(res)
  \/ disconnect
  \/ \E s \in ForkArgs : forkSession(s)
  \/ \E id \in ForkedIds : ForkResolves(id)
  \/ ForkRejects
  \/ sendMessage
  \/ GenFirstNext
  \/ GenResume
  \/ PromptResolves("end_turn")
  \/ GenFinish

SpecFork == InitSess /\ [][NextFork]_vars

\* ---------------------------------------------------------------- claims
LastOf(seq) == seq[Len(seq)]

\* C1 (as stated): whenever a sendMessage event sequence has been drained to
\* completion, in whatever client state it was started, it holds exactly one
\* terminal event (message_complete or error).
C1_AlwaysOneTerminal ==
  genPc \in {"done", "thrown"} => TerminalCount(genEvents) = 1

\* C1 (amended): a sequence whose body starts while connection and session
\* are set ends in exactly one terminal event, which is its last event; a
\* sequence started while not connected yields no event at all and raises
\* "Not connected" to the consumer.
C1_OneTerminalWhenConnected ==
  /\ TerminalCount(genEvents) <= 1
  /\ genPc \in {"atStart", "awaitPrompt", "atComplete", "atError", "done"}
       => genStartedConnected
  /\ genPc = "done" => /\ TerminalCount(genEvents) = 1
                       /\ IsTerminal(LastOf(genEvents))
  /\ genPc = "thrown" => ~genStartedConnected /\ genEvents = <<>>

\* a drained sequence that ended in error because disconnect() ran between
\* message_start and the prompt call
C1_Witness ==
  /\ genPc = "done"
  /\ LastOf(genEvents).type = "error"
  /\ promptOn = 0
  /\ connection = 0

\* C2: in a run of connect(), newSession is sent only after initialize has
\* resolved; while initialize is pending or after it failed, no newSession
\* has been sent.
C2_InitializeBeforeNewSession ==
  /\ newSessRpc # "none" => initRpc = "ok"
  /\ connPc = "awaitInit" => initRpc = "sent" /\ newSessRpc = "none"
  /\ connPc = "awaitNewSession" => newSessRpc = "sent"
  /\ connPc = "idle" => newSessRpc = "none"

C2_Witness == connPc = "awaitNewSession" /\ initRpc = "ok" /\ initResult

C4_ExitFailsPromptAndCloses ==
  /\ ConnectionFailsOutstanding
       ~> (genPc = "atError" /\ closedSettled /\ closedResolutions = 1)
  /\ [](closedResolutions <= 1)

C4_Witness ==
  /\ genPc = "atError"
  /\ promptOn # 0
  /\ procState[promptOn] = "exited"
  /\ \A p \in Procs : procState[p] = "exited"
  /\ closedSettled

\* C5: a Session object is active exactly as long as disconnect() has not
\* run on it and its subprocess has not exited, and the client does not
\* report connected once the subprocess of the current session has exited.
C5_InactiveOnExitOrDisconnect ==
  \A i \in 1..Len(sessObjs) :
    /\ sessObjs[i].isActive <=>
         ~(sessObjs[i].disconnected \/ procState[sessObjs[i].proc] = "exited")
    /\ (session = i /\ procState[sessObjs[i].proc] = "exited") => ~isConnected

TerminalStatuses == {"completed", "failed"}

\* status carried by the last update of seq that carries one, else dflt
RECURSIVE LastCarried(_, _)
LastCarried(seq, dflt) ==
  IF seq = <<>> THEN dflt
  ELSE IF LastOf(seq) # Absent THEN LastOf(seq)
  ELSE LastCarried(SubSeq(seq, 1, Len(seq) - 1), dflt)

\* C6: once the card of a tool call shows completed or failed, a further
\* tool_call_update for the same toolCallId leaves the shown status as it is.
C6_TerminalStatusSticks ==
  [][\A id \in ToolIds :
       (cardStatus[id] \in TerminalStatuses
        /\ Len(updates'[id]) = Len(updates[id]) + 1)
       => cardStatus'[id] = cardStatus[id]]_vars

\* C7: after a tool_call and any updates for its toolCallId, the status the
\* card shows is the status of the last update that carried one, and the
\* initial in_progress when no update carried a status.
C7_LastUpdateWins ==
  \A id \in ToolIds :
    id \in toolCallCards =>
      cardStatus[id] = LastCarried(updates[id], "in_progress")

C7_Witness ==
  /\ updates["t1"] = <<"in_progress", "failed", Absent>>
  /\ cardStatus["t1"] = "failed"

\* C8: a permission request that arrives while no handler is registered is
\* answered cancelled in the very step of its arrival, with no call of host
\* code, and nothing is added to that answer later.
C8_AutoDenyWithoutHandler ==
  [][\A r \in Reqs :
       /\ (reqState[r] = "none" /\ reqState'[r] # "none" /\ ~permissionHandler)
            => /\ reqState'[r] = "answered"
               /\ responses'[r] = <<Cancelled>>
               /\ handlerCalls'[r] = 0
       /\ (reqState[r] = "answered" /\ handlerCalls[r] = 0)
            => /\ responses'[r] = responses[r]
               /\ handlerCalls'[r] = 0]_vars

C8_Witness ==
  \E r \in Reqs :
    /\ reqState[r] = "answered"
    /\ handlerCalls[r] = 0
    /\ reqOptions[r] = <<Opt("a", "allow_once"), Opt("b", "reject_once")>>
    /\ responses[r] = <<Cancelled>>
    /\ ~permissionHandler

\* C9: a request whose handler returned granted = false is answered
\* cancelled, whatever its options and whether or not the result names an
\* optionId.
C9_NotGrantedIsCancelled ==
  \A r \in Reqs :
    (handlerGave[r].kind = "returned" /\ ~handlerGave[r].granted)
      => responses[r] = <<Cancelled>>

C9_Witness ==
  \E r \in Reqs :
    /\ handlerGave[r] = Returned(FALSE, "a")
    /\ reqOptions[r] = <<Opt("a", "allow_once"), Opt("b", "reject_once")>>
    /\ responses[r] = <<Cancelled>>

\* C10: every permission request gets at most one response, a response is
\* cancelled or selected with an optionId, and once the handler has
\* returned or thrown, or the chat view has been closed, there is one.
C10_ExactlyOneResponse ==
  \A r \in Reqs :
    /\ Len(responses[r]) <= 1
    /\ \A i \in 1..Len(responses[r]) :
         \/ responses[r][i] = Cancelled
         \/ (responses[r][i].outcome = "selected"
             /\ responses[r][i].optionId # Absent)
    /\ reqState[r] \in {"answered", "failed"} => Len(responses[r]) = 1

\* C12: disconnect() leaves isConnected() false and getSession() null from
\* whatever state it is called in (never connected, connected, a connect
\* run in flight or failed), and called again right after itself it changes
\* no client state.
C12_DisconnectIdempotent ==
  [][disconnect => /\ ~isConnected' /\ session' = 0 /\ Disconnected'
                   /\ Disconnected => UNCHANGED vars]_vars

\* disconnect() has run on a connected client; a second call finds this state
C12_Witness ==
  /\ Disconnected
  /\ sessObjs # <<>>
  /\ sessObjs[Len(sessObjs)].disconnected
  /\ connectResult = "ok"

\* a run of connect() ends in its catch block in this step
ConnectFails ==
  /\ connPc' = "idle"
  /\ connectResult' = "failed"
  /\ (connPc # "idle" \/ connectRuns' # connectRuns)

\* onConnect is invoked once per Session object connect() creates
onConnectCalls == Len(sessObjs)

\* C13 (as stated): after a failed connect() getSession() is null and
\* isConnected() is false.
C13_FailedConnectNoSession ==
  connectResult = "failed" => session = 0 /\ ~isConnected

\* C13 (amended): a failing run of connect() rejects, creates no Session
\* object, leaves this.session as it was and does not invoke onConnect; when
\* the client held no session before, getSession() is null and isConnected()
\* is false afterwards.
C13_FailedConnectCreatesNoSession ==
  /\ [][ConnectFails => /\ sessObjs' = sessObjs
                        /\ session' = session
                        /\ onConnectCalls' = onConnectCalls
                        /\ session = 0 => ~isConnected']_vars
  /\ []((connectResult = "failed" /\ sessObjs = <<>>)
          => (session = 0 /\ ~isConnected))
  /\ []((connectResult = "failed" /\ connectRuns = 1) => sessObjs = <<>>)

\* connect() failed at newSession: a connection object exists, no session
C13_Witness ==
  /\ connectResult = "failed"
  /\ connection # 0
  /\ initResult
  /\ session = 0
  /\ sessObjs = <<>>
\* C11: once setMode(id) has completed, getCurrentMode() returns id, and it
\* keeps returning it until a current_mode_update notification, a later
\* setMode, or the result of a session-establishing RPC stores another mode.
getCurrentMode == currentMode

SetModeCompleted ==
  ~setModeRpc.pending /\ setModeRpc.op = "setSessionMode"

C11_SetModeIsCurrentUntilChanged ==
  [][/\ SetModeResolves => getCurrentMode' = setModeRpc.arg
     /\ getCurrentMode' # getCurrentMode =>
          \/ SetModeResolves
          \/ \E p \in ModeIds : AgentNotifies("current_mode_update", p)
          \/ \E res \in SessionResults : NewSessionResolves(res)
          \/ \E res \in SessionResults : EstablishResolves(res)]_vars

\* C11 witness: a setMode("m2") has completed on a session whose result
\* named m1 as current, and m2 is the current mode.
C11_Witness ==
  /\ SetModeCompleted
  /\ setModeRpc.arg = "m2"
  /\ availableModes = ModeIds
  /\ getCurrentMode = "m2"
  /\ isConnected

\* C14: after a session-establishing operation has succeeded, the modes,
\* current mode, models, current model and config options the client
\* reports are exactly those of the result, also when the result omits them.
StateIsResult(res) ==
  /\ availableModes = res.modes.available
  /\ currentMode = res.modes.current
  /\ availableModels = res.models.available
  /\ currentModel = res.models.current
  /\ configOptions = res.configOptions.options

C14_EstablishedStateIsResult ==
  [][\A res \in SessionResults :
       (NewSessionResolves(res) \/ EstablishResolves(res))
         => StateIsResult(res)']_vars

\* C15: a session update changes only the field it is about:
\* current_mode_update stores the current mode and nothing else,
\* config_option_update stores the config options and nothing else, every
\* other kind leaves session, modes, models and config options as they were.
SessionUpdateStep ==
  \E k \in UpdateKinds : \E p \in PayloadsOf(k) : AgentNotifies(k, p)

C15_UpdateChangesOwnFieldOnly ==
  [][SessionUpdateStep =>
       /\ UNCHANGED <<session, sessObjs, availableModes, availableModels,
                      currentModel>>
       /\ currentMode' # currentMode =>
            /\ UNCHANGED configOptions
            /\ \E p \in ModeIds : AgentNotifies("current_mode_update", p)
       /\ configOptions' # configOptions =>
            /\ UNCHANGED currentMode
            /\ AgentNotifies("config_option_update", "c2")
       /\ \A p \in ModeIds :
            AgentNotifies("current_mode_update", p) => currentMode' = p]_vars

\* C15 witness: a current_mode_update for m2 was the latest update on a
\* session created with modes, models and config options; only the
\* current mode differs from what the result stored.
C15_Witness ==
  /\ isConnected
  /\ setModeRpc = NoRpc
  /\ currentMode = "m2"
  /\ nDelivered = 1
  /\ availableModes = ModeIds
  /\ availableModels = ModelIds
  /\ currentModel = "x"
  /\ configOptions = <<"c1">>

\* C16: while the client holds no session, a session update is dropped: no
\* session appears, no mode, model or config state changes, and no stream
\* event reaches the host.
C16_UpdateWithoutSessionDropped ==
  [][(session = 0 /\ \E k \in UpdateKinds : \E p \in PayloadsOf(k) :
                        AgentNotifies(k, p))
       => (UNCHANGED <<session, modeVars>> /\ nDelivered' = 0)]_vars

\* C17: the loadSession RPC is sent only when the capabilities recorded at
\* initialize advertise loadSession.
C17_LoadSessionNeedsCapability ==
  [][loadSession => agentCaps]_vars

\* C18: a host handler that throws is turned into a safe default answer: a
\* throwing permission handler is answered cancelled, a throwing readFile
\* is answered with empty content.
C18_ThrowingHandlerSafeDefault ==
  \A r \in InReqs :
    inAnswer[r].threw =>
      /\ inState[r] = "answered"
      /\ inKind[r] = "requestPermission" => inAnswer[r].outcome = "cancelled"
      /\ inKind[r] = "readTextFile" =>
           (inAnswer[r].outcome = "content" /\ inAnswer[r].value = "")

\* C20: inbound requests pending at the same time are answered
\* independently: a request is answered when its own handler resolves, so
\* the answers go out in the order the handlers resolve, and a request
\* whose handler has not resolved holds back neither the next request nor
\* a notification.
HandlerSettled(r) == \E i \in 1..Len(settledOrder) : settledOrder[i] = r
IsAnswered(r) == inState[r] = "answered"
SomePending == \E q \in InReqs : inState[q] = "pending"
NextToArrive(r) ==
  inState[r] = "none" /\ (IF r = 1 THEN TRUE ELSE inState[r - 1] # "none")

C20_AnsweredIndependently ==
  /\ \A r \in InReqs : HandlerSettled(r) => inState[r] \in {"answered", "failed"}
  /\ SelectSeq(answeredOrder, HandlerSettled) = SelectSeq(settledOrder, IsAnswered)
  /\ (SomePending /\ AgentCanSend) =>
       /\ \A r \in InReqs : \A k \in InKinds :
            NextToArrive(r) => ENABLED InboundRequest(r, k)
       /\ ENABLED AgentNotifies("agent_message_chunk", "text")

\* C20 witness: a permission request arrived first and a file read second;
\* the read's handler resolved first and was answered first.
C20_Witness ==
  /\ inKind[1] = "requestPermission"
  /\ inKind[2] = "readTextFile"
  /\ settledOrder = <<2, 1>>
  /\ answeredOrder = <<2, 1>>

\* C19: every permission request that was answered with an allow option
\* was preceded by a choice the user made on the card of that very request.
AnsweredWithAllow(r) ==
  \E i \in 1..Len(responses[r]) :
    /\ responses[r][i].outcome = "selected"
    /\ IsAllowOption(reqOptions[r], responses[r][i].optionId)

C21_UnknownToolUpdateIgnored ==
  [][\A id \in ToolIds :
       (id \notin toolCallCards /\ ViewToolCallUpdate(id, "completed"))
         => UNCHANGED <<toolCallCards, cardStatus, updates,
                        pendingEditsByFile>>]_vars

\* C21 witness: t1 has a card that shows in_progress, an update for t2,
\* which has none, was logged, and t2 still has no card.
C21_Witness ==
  /\ toolCallCards = {"t1"}
  /\ cardStatus["t1"] = "in_progress"
  /\ cardStatus["t2"] = "none"
  /\ warned = {"t2"}

\* C22: terminal ids are never reused within one client instance: however
\* createTerminal calls of the host, terminal/create requests of the agent,
\* releases and disconnect/connect cycles interleave, every terminal gets
\* an id greater than every id allocated before it.
C22_TerminalIdsNeverReused ==
  \A i, j \in 1..Len(allocated) : i < j => allocated[i] < allocated[j]

\* C22 witness: the host created terminal 1, the client was disconnected
\* (the registry was cleared) and connected again, and the terminal the
\* agent then asked for got id 2.
C22_Witness ==
  /\ allocated = <<1, 2>>
  /\ handles[1].host
  /\ ~handles[2].host
  /\ registry = {2}
  /\ connectRuns = 2

\* C23: a released terminal handle is no longer in the client's registry,
\* whether it was released by disconnect() or by release() on the handle.
C23_ReleasedHandleNotRegistered ==
  \A t \in TermIds : ~handles[t].process => t \notin registry

\* C24: waitForExit() resolves once and its result is cached: every caller
\* that has received an exit status, whether it called before or after the
\* process ended and whether the 'error' event, the 'exit' event or both
\* fired, holds the one value of the handle's promise, and nobody is left
\* waiting once that promise has a value.
C24_WaitForExitOneStatus ==
  \A t \in TermIds : \A c \in Callers :
    /\ handles[t].waitGot[c] \notin {NotCalled, Waiting}
         => handles[t].waitGot[c] = handles[t].exitPromise
    /\ handles[t].exitPromise # NoCode => handles[t].waitGot[c] # Waiting

\* C24 witness: the process of terminal 1 emitted 'error' and then 'exit'
\* with code 0, and both callers of waitForExit() hold the status of the
\* first of the two events.
C24_Witness ==
  /\ 1 \in TermIds
  /\ handles[1].os = "exited"
  /\ handles[1].exitCode = 0
  /\ handles[1].exitPromise = ErrorCode
  /\ \A c \in Callers : handles[1].waitGot[c] = ErrorCode

\* what kill() may not touch on a handle: everything but the count of calls
HandleState(h) == [h EXCEPT !.killCalls = 0]

\* C25: kill() is safe on an ended process: on a handle whose process has
\* exited, failed to spawn or been released, kill() delivers no signal,
\* raises no error and leaves the handle as it was, so a second kill()
\* leaves it in the same state as the first.
C25_KillOnEndedIsNoOp ==
  [][\A t \in TermIds :
       (Ended(t) /\ Kill(t))
         => /\ HandleState(handles'[t]) = HandleState(handles[t])
            /\ ~handles'[t].killRaised
            /\ UNCHANGED registry]_vars

\* C25 witness: the process of terminal 1 exited by itself, kill() was then
\* called twice on the handle, and no signal was ever delivered.
C25_Witness ==
  /\ 1 \in TermIds
  /\ handles[1].os = "exited"
  /\ handles[1].process
  /\ handles[1].killCalls = 2
  /\ ~handles[1].signalled
  /\ ~handles[1].killRaised

\* C26: cancel() is advisory: it leaves the subprocess, the connection, the
\* session and a pending sendMessage sequence as they were (it yields no
\* event and ends no sequence), and on a client that is not connected it
\* sends nothing and raises no error.
C26_CancelIsAdvisory ==
  [][HostCancels
       => /\ UNCHANGED <<process, procState, connection, session, sessObjs,
                         initResult, closeVars, genVars, hostLog>>
          /\ ~isConnected => UNCHANGED rpc]_vars

\* C26 witness: cancel() was called while the prompt RPC of a sendMessage
\* sequence was pending; the notification went out, the subprocess runs,
\* the client is connected and the sequence still awaits the prompt.
C26_Witness ==
  /\ rpc.cancelSent = 1
  /\ genPc = "awaitPrompt"
  /\ isConnected
  /\ procState[process] = "running"
  /\ promptOn = connection

\* C27: every event sequence that sendMessage produces on a connected
\* client begins with exactly one message_start event, yielded before the
\* prompt RPC is issued, in the native client and in the Zed adapter.
C27_SequenceBeginsWithMessageStart ==
  (genStartedConnected /\ (promptOn # 0 \/ genEvents # <<>>))
    => /\ genEvents # <<>>
       /\ genEvents[1].type = "message_start"
       /\ Cardinality({i \in 1..Len(genEvents) :
                         genEvents[i].type = "message_start"}) = 1

\* C28: with several requests of the client outstanding at once, each
\* response resolves the promise of the caller whose request id it carries
\* and no other, in whatever order the responses arrive: a caller holds
\* only the response to its own request, and a caller whose request is
\* still outstanding holds none.
C28_ResponseResolvesItsCaller ==
  /\ \A m \in DOMAIN rpc.call :
       rpc.call[m].got # 0 => rpc.call[m].got = rpc.call[m].id
  /\ \A i \in Outstanding : rpc.call[rpc.table[i]] = [id |-> i, got |-> 0]

\* C28 witness: the three callers sent requests 1, 2 and 3, the responses
\* arrived in the order 2, 1, 3 (so 1 was outstanding when 2 was answered),
\* and each caller holds its own response.
C28_Witness ==
  /\ rpc.answered = <<2, 1, 3>>
  /\ DOMAIN rpc.call = RpcMethods
  /\ \A m \in RpcMethods : rpc.call[m].got = rpc.call[m].id

\* C29: the permission modal resolves its waitForResponse() promise exactly
\* once however Confirm, Cancel, Enter, Escape and closing interleave:
\* nothing is resolved while the modal is open, and a closed modal has
\* resolved once, with selected and the selected optionId when it was
\* closed by Confirm (or Enter) with an option selected, and with cancelled
\* in every other case, Confirm with no option selected included.
C29_ModalResolvesOnce ==
  \A m \in DOMAIN modals :
    /\ Len(modals[m].resolved) <= 1
    /\ modals[m].state = "open"
         => (modals[m].resolved = <<>> /\ modals[m].resolvePromise)
    /\ modals[m].state = "closed"
         => modals[m].resolved =
              << IF modals[m].closedBy \in {"confirm", "enter"}
                    /\ modals[m].selectedOptionId # Absent
                 THEN Selected(modals[m].selectedOptionId) ELSE Cancelled >>

\* C29 witness: one modal was confirmed after the user moved the selection
\* from the default a to b and resolved with selected b; the other, whose
\* request has no allow option, was confirmed with Enter with nothing
\* selected and resolved with cancelled.
C29_Witness ==
  /\ Len(modals) = 2
  /\ modals[1].closedBy = "confirm"
  /\ modals[1].options = <<Opt("a", "allow_once"), Opt("b", "reject_once")>>
  /\ modals[1].resolved = <<Selected("b")>>
  /\ modals[2].closedBy = "enter"
  /\ modals[2].selectedOptionId = Absent
  /\ modals[2].resolved = <<Cancelled>>

\* C30: closed and signal describe the current connection: once the
\* client was disconnected and connected again, closed is pending and the
\* signal is not aborted for as long as the new subprocess runs.
C30_SignalsDescribeCurrentConnection ==
  (/\ \E s \in DOMAIN sessObjs : sessObjs[s].disconnected
   /\ isConnected
   /\ process # 0
   /\ procState[process] = "running")
    => (~closedSettled /\ ~aborted)


\* C31 (as stated): once disconnect() has returned, no subprocess this
\* client spawned is still running without having been killed, whatever
\* connect() calls came before (a second connect() on a connected client, a
\* connect() that failed after spawning).
C31_NoSubprocessSurvivesDisconnect ==
  [][disconnect => \A p \in Procs : procState'[p] # "running"]_vars


\* A Session object is built with currentMode: this.currentMode and no
\* statement assigns that field afterwards, so the field of the object
\* getSession() returns is the value getCurrentMode() had when the object
\* was built: the two agree in every state exactly if getCurrentMode() keeps
\* its value for as long as the same object is this.session.
SessionObjectKept == session # 0 /\ session' = session

\* C32 (as stated): whenever there is a session, the currentMode of the
\* Session object getSession() returns is the mode getCurrentMode() returns,
\* also after setMode() and after a current_mode_update notification.
C32_SessionModeAgrees ==
  [][SessionObjectKept => getCurrentMode' = getCurrentMode]_vars


\* getOutput().exitStatus: { code: this.exitCode } once exitCode is set,
\* undefined (NoCode) before
getOutput(t) == handles[t].exitCode

\* the value waitForExit() has resolved with, NoCode while it is pending
waitForExit(t) == handles[t].exitPromise

\* C33 (as stated): once waitForExit() of a handle has resolved, getOutput()
\* reports an exitStatus whose code is the code waitForExit() resolved with,
\* whether the process exited, was killed by a signal or failed to spawn.
C33_OutputAgreesWithWait ==
  \A t \in TermIds :
    waitForExit(t) # NoCode => getOutput(t) = waitForExit(t)


\* the options of request r that grant: kind allow_once or allow_always
AllowOptionIds(r) ==
  {reqOptions[r][i].optionId : i \in {j \in DOMAIN reqOptions[r] :
                                        isAllowKind(reqOptions[r][j])}}

\* C34 (as stated): whenever the host handler returned granted = true, the
\* optionId sent to the agent is the id of an allow_once or allow_always
\* option of that request, for every option list and every optionId the
\* handler may return.
C34_GrantedSelectsAllowOption ==
  \A r \in Reqs :
    (handlerGave[r].kind = "returned" /\ handlerGave[r].granted)
      => \E id \in AllowOptionIds(r) : responses[r] = <<Selected(id)>>


\* C35 (as stated): when the user picks an option in the permission UI, the
\* agent receives outcome selected with exactly that optionId, whatever the
\* kind of the option, through the permission handler of ObsidianAcpClient
\* and handleRequestPermission.
C35_PickedOptionReachesAgent ==
  [][\A r \in Reqs : \A o \in {"a", "b"} :
       UserSelects(r, o) => responses'[r] = <<Selected(o)>>]_vars


\* a step in which setMode, setModel or setConfigOption fails: the call
\* finds the client not connected, or its RPC rejects
FailedSetterStep ==
  \/ SetModeRejects
  \/ SetModelRejects
  \/ SetConfigOptionRejects
  \/ /\ connection = 0 \/ session = 0
     /\ \/ \E m \in ModeIds : setMode_notConnected(m)
        \/ \E m \in SetModelArgs : setModel(m)
        \/ \E c \in ConfigIds, v \in ValueIds : setConfigOption(c, v)

\* C36: a failed setter leaves the session state unchanged: when the RPC of
\* setMode, setModel or setConfigOption rejects, or the client is not
\* connected, the call raises an error and the current mode, the current
\* model and the config options (and the available modes and models) are
\* what they were.
C36_FailedSetterKeepsState ==
  [][FailedSetterStep =>
       /\ UNCHANGED <<currentMode, currentModel, configOptions,
                      availableModes, availableModels>>
       /\ SetModeRejects \/ (hostCall'.state = "threw" /\ hostCall'.op \in Setters)]_vars

\* a setModel("y") was rejected on a session whose result named model x and
\* config option c1: both are still current
C36_Witness ==
  /\ isConnected
  /\ hostCall = CallThrew("setModel", "y", Absent)
  /\ currentModel = "x"
  /\ currentMode = "m1"
  /\ configOptions = <<"c1">>


\* a step of a forkSession call: the call, its RPC resolving or rejecting
ForkStep ==
  \/ \E s \in ForkArgs : forkSession(s)
  \/ \E id \in ForkedIds : ForkResolves(id)
  \/ ForkRejects

\* a prompt RPC is sent in this step
PromptSent == genPc # "awaitPrompt" /\ genPc' = "awaitPrompt"

\* C37: forkSession returns the id of the forked session and leaves the
\* current session as it is: no step of the call changes getSession(), the
\* Session object, the modes, models or config options, and a prompt sent
\* after the fork names the session that was current before it and goes to
\* the agent that session was established with.
C37_ForkLeavesCurrentSession ==
  [][/\ ForkStep => UNCHANGED <<session, sessObjs, modeVars, promptSessionId>>
     /\ \A id \in ForkedIds :
          ForkResolves(id) => /\ hostCall'.state = "returned"
                              /\ hostCall'.result = id
     /\ (PromptSent /\ hostCall.op = "forkSession")
          => /\ promptSessionId' = promptSessionId
             /\ promptSessionId # 0
             /\ promptOn' = sessObjs[promptSessionId].proc]_vars

\* a fork of the session returned f1 and a prompt is in flight on the
\* session connect() created, with the modes of its result
C37_Witness ==
  /\ hostCall.op = "forkSession"
  /\ hostCall.state = "returned"
  /\ hostCall.result = "f1"
  /\ Len(sessObjs) = 1
  /\ session = 1
  /\ currentMode = "m1"
  /\ genPc = "awaitPrompt"
  /\ promptOn = sessObjs[1].proc

====
